---- MODULE Spec2Model ----
(***************************************************************************)
(* A model of repo-statistics: the file classifier (utils.py), the commit  *)
(* normaliser (commits.py), the time-window bucketer and its statistics    *)
(* (timeseries.py), the contributor absence factor (contributors.py) and   *)
(* the orchestrator (main.py).                                             *)
(*                                                                         *)
(* Strings that the code takes apart (file paths) are sequences of         *)
(* one-character strings.  Datetimes are integers (ticks since an epoch)   *)
(* and timedeltas are integer numbers of ticks.                            *)
(***************************************************************************)
EXTENDS Integers, Sequences, FiniteSets, TLC

VARIABLES
    pc,                     \* where the modelled call is: "start", "returned", "raised"
    \* utils.py
    table,                  \* FILE_FORMATS_TO_DTYPE_DF: a set of rows
    fp,                     \* the argument of the call of get_file_type
    cache,                  \* the lru_cache of get_file_type, most recent first
    filetype,               \* what that call returned
    \* commits.py
    repo,                   \* the commits repo.iter_commits() yields
    per_file_commit_deltas, \* parse_commits: list of PerFileCommitDelta
    per_commit_summaries,   \* parse_commits: list of CommitSummary
    \* timeseries.py
    commits_df,             \* the CommitSummary table handed to the call
    period_span,            \* td: the width of a window, in ticks
    start_datetime,         \* <<t>>, or <<>> for None
    end_datetime,           \* <<t>>, or <<>> for None
    datetime_col,           \* "authored_datetime" or "committed_datetime"
    periods,                \* get_periods_changed: CommitPeriodResults
    tsmetrics,              \* compute_timeseries_metrics: TimeseriesMetrics
    \* contributors.py
    contributor_name_col,   \* "author_name" or "committer_name"
    absence,                \* compute_contributor_absence_factor: its metrics
    stability,              \* compute_contributor_stability_metrics: its metrics
    \* main.py
    per_file_commit_deltas_df,  \* _analyze_repository: its per-file table
    all_metrics,            \* what _analyze_repository returns
    \* source.py
    head,                   \* what HEAD of the repository is: a branch or a commit
    sloc,                   \* compute_sloc: its results
    \* platform.py
    remote_url,             \* repo.remote().url
    attempts,               \* the outcomes of the requests made, in order
    platform_metrics        \* compute_platform_metrics: its metrics

classifierVars == <<table, fp, cache, filetype>>
parseVars == <<repo, per_file_commit_deltas, per_commit_summaries>>
windowArgs == <<commits_df, period_span, start_datetime, end_datetime, datetime_col>>
windowVars == <<windowArgs, periods, tsmetrics>>
contribVars == <<contributor_name_col, absence, stability>>
analyzeVars == <<per_file_commit_deltas_df, all_metrics>>
sourceVars == <<head, sloc>>
platformVars == <<remote_url, attempts, platform_metrics>>
collaboratorVars == <<sourceVars, platformVars>>
vars == <<pc, classifierVars, parseVars, windowVars, contribVars, analyzeVars,
          collaboratorVars>>

\* Python's None, where a string is expected.
None == "<none>"
\* A polars null in a column of file names or extensions.
NullStr == <<"<null>">>
\* The value of a result variable before the call has returned.
NotCalled == "<not called>"

-----------------------------------------------------------------------------
(* Bounds of the model.                                                    *)

\* Longest file path handed to get_file_type.
MaxPathLen == 3
\* Most rows in the classification table.
MaxRows == 2
\* Most commits in a repository handed to parse_commits.
MaxCommits == 2
\* Most files changed by one commit.
MaxFiles == 2
\* Latest authored datetime of a commit of the tables handed to the
\* bucketer, in ticks.
MaxTime == 3
\* The entries the modelled lru_cache of get_file_type holds (the program's
\* holds 2**14).
MaxCacheSize == 2
\* Most contributors of the tables handed to the contributor metrics.
MaxContributors == 3
\* Most commits of the histories handed to the orchestrator.
MaxHistory == 6

-----------------------------------------------------------------------------
(* Small helpers.                                                          *)

RECURSIVE SeqsUpTo(_, _)
\* All sequences over S of length at most n.
SeqsUpTo(S, n) ==
    IF n = 0 THEN {<<>>}
    ELSE LET shorter == SeqsUpTo(S, n - 1)
         IN  shorter \cup {Append(s, x) : s \in {t \in shorter : Len(t) = n - 1}, x \in S}

RECURSIVE SumSeq(_)
SumSeq(s) == IF s = <<>> THEN 0 ELSE Head(s) + SumSeq(Tail(s))

Range(s) == {s[i] : i \in DOMAIN s}

-----------------------------------------------------------------------------
(* utils.py: the file classifier.                                          *)

\* constants.FileTypes: the five categories.
FileTypes == {"programming", "markup", "prose", "data", "unknown"}
\* The types a row of the Linguist table carries.
LinguistTypes == {"programming", "markup", "prose", "data"}

\* The characters of a path: a lower-case letter, its upper-case form, the
\* extension dot, the directory separator, and letters used as extensions.
Chars == {"a", "A", ".", "/"}

\* str.lower() on one character.
LowerChar(c) == IF c = "A" THEN "a" ELSE c
\* str.lower()
Lower(s) == [i \in DOMAIN s |-> LowerChar(s[i])]

RECURSIVE PathParts(_, _, _)
\* pathlib's parsing of a posix path into parts: split on "/", drop the
\* empty components and the "." components.  cur is the component being read.
PathParts(s, cur, acc) ==
    LET flush == IF cur = <<>> \/ cur = <<".">> THEN acc ELSE Append(acc, cur)
    IN  IF s = <<>> THEN flush
        ELSE IF Head(s) = "/" THEN PathParts(Tail(s), <<>>, flush)
        ELSE PathParts(Tail(s), Append(cur, Head(s)), acc)

\* Path(fp).name: the final component, "" when there is none.
PathName(p) ==
    LET parts == PathParts(p, <<>>, <<>>)
    IN  IF parts = <<>> THEN <<>> ELSE parts[Len(parts)]

\* Path(fp).suffix: from the last dot of the name on, when that dot is
\* neither the first nor the last character of the name; "" otherwise.
PathSuffix(p) ==
    LET name == PathName(p)
        dots == {i \in DOMAIN name : name[i] = "."}
    IN  IF dots = {} THEN <<>>
        ELSE LET i == CHOOSE d \in dots : \A e \in dots : e <= d
             IN  IF 1 < i /\ i < Len(name)
                 THEN SubSeq(name, i, Len(name))
                 ELSE <<>>

\* The fall-through of the priority loop: no default is returned.
get_file_type_NoDefault(tbl, p) ==
    LET filename == Lower(PathName(p))
        filename_match == {r \in tbl : r.filename = filename}
        name_types == {r.type : r \in filename_match}
        extension == Lower(PathSuffix(p))
        matched == {r \in tbl : r.extension = extension}
        matched_types == {r.type : r \in matched}
    IN  IF filename_match # {} /\ Cardinality(name_types) = 1
        THEN CHOOSE t \in name_types : TRUE
        ELSE IF Cardinality(matched_types) = 1
        THEN CHOOSE t \in matched_types : TRUE
        ELSE IF "prose" \in matched_types THEN "prose"
        ELSE IF "data" \in matched_types THEN "data"
        ELSE IF "markup" \in matched_types THEN "markup"
        ELSE IF "programming" \in matched_types THEN "programming"
        ELSE None

\* A classifier that walks the priority list from its other end.
get_file_type_ProgrammingFirst(tbl, p) ==
    LET filename == Lower(PathName(p))
        filename_match == {r \in tbl : r.filename = filename}
        name_types == {r.type : r \in filename_match}
        extension == Lower(PathSuffix(p))
        matched == {r \in tbl : r.extension = extension}
        matched_types == {r.type : r \in matched}
    IN  IF filename_match # {} /\ Cardinality(name_types) = 1
        THEN CHOOSE t \in name_types : TRUE
        ELSE IF matched = {} THEN "unknown"
        ELSE IF Cardinality(matched_types) = 1
        THEN CHOOSE t \in matched_types : TRUE
        ELSE IF "programming" \in matched_types THEN "programming"
        ELSE IF "markup" \in matched_types THEN "markup"
        ELSE IF "data" \in matched_types THEN "data"
        ELSE IF "prose" \in matched_types THEN "prose"
        ELSE "unknown"

\* A classifier whose extension lookup comes first.
get_file_type_ExtensionFirst(tbl, p) ==
    LET filename == Lower(PathName(p))
        filename_match == {r \in tbl : r.filename = filename}
        name_types == {r.type : r \in filename_match}
        extension == Lower(PathSuffix(p))
        matched == {r \in tbl : r.extension = extension}
        matched_types == {r.type : r \in matched}
    IN  IF Cardinality(matched_types) = 1
        THEN CHOOSE t \in matched_types : TRUE
        ELSE IF filename_match # {} /\ Cardinality(name_types) = 1
        THEN CHOOSE t \in name_types : TRUE
        ELSE IF matched = {} THEN "unknown"
        ELSE IF "prose" \in matched_types THEN "prose"
        ELSE IF "data" \in matched_types THEN "data"
        ELSE IF "markup" \in matched_types THEN "markup"
        ELSE IF "programming" \in matched_types THEN "programming"
        ELSE "unknown"

\* get_file_type(fp) against the table tbl.
get_file_type(tbl, p) ==
    LET filename == Lower(PathName(p))
        \* exact filename match; a null filename equals nothing
        filename_match == {r \in tbl : r.filename = filename}
        name_types == {r.type : r \in filename_match}
        extension == Lower(PathSuffix(p))
        matched == {r \in tbl : r.extension = extension}
        matched_types == {r.type : r \in matched}
    IN  IF filename_match # {} /\ Cardinality(name_types) = 1
        THEN CHOOSE t \in name_types : TRUE
        ELSE IF matched = {} THEN "unknown"
        ELSE IF Cardinality(matched_types) = 1
        THEN CHOOSE t \in matched_types : TRUE
        ELSE IF "prose" \in matched_types THEN "prose"
        ELSE IF "data" \in matched_types THEN "data"
        ELSE IF "markup" \in matched_types THEN "markup"
        ELSE IF "programming" \in matched_types THEN "programming"
        ELSE "unknown"

\* The rows a table may hold: an exact-filename row or an extension row,
\* each with one of the Linguist types.
ExactNames == {<<"a">>, <<"a", ".", "a">>}
Extensions == {<<".", "a">>}
RowUniverse ==
    {[filename |-> n, extension |-> NullStr, type |-> t] : n \in ExactNames, t \in LinguistTypes}
    \cup {[filename |-> NullStr, extension |-> e, type |-> t] : e \in Extensions, t \in LinguistTypes}
Tables == {T \in SUBSET RowUniverse : Cardinality(T) <= MaxRows}
Paths == SeqsUpTo(Chars, MaxPathLen)

\* The table the other components classify with: one extension per category,
\* and a file name (LICENSE-like) that is prose by its exact name.
FILE_FORMATS_TO_DTYPE_DF ==
    {[filename |-> NullStr, extension |-> <<".", "p">>, type |-> "programming"],
     [filename |-> NullStr, extension |-> <<".", "m">>, type |-> "markup"],
     [filename |-> NullStr, extension |-> <<".", "r">>, type |-> "prose"],
     [filename |-> NullStr, extension |-> <<".", "d">>, type |-> "data"]}

\* One call of get_file_type.
GetFileType ==
    /\ pc = "start"
    /\ filetype' = get_file_type(table, fp)
    /\ pc' = "returned"
    /\ UNCHANGED <<table, fp, cache, parseVars, windowVars, contribVars, analyzeVars, collaboratorVars>>

\* A cache that keys a call by the lowercased suffix of its argument.
CacheKey_Suffix(p) == Lower(PathSuffix(p))

\* The key lru_cache makes of a call: the argument as it is given.
CacheKey(p) == p

\* The cache after a call whose key is k and whose result is v: the entry is
\* the most recent one, and the least recent ones beyond maxsize are dropped.
CacheAfter(entries, k, v) ==
    LET others == SelectSeq(entries, LAMBDA e : e.key # k)
        all == <<[key |-> k, value |-> v]>> \o others
    IN  SubSeq(all, 1, IF Len(all) <= MaxCacheSize THEN Len(all) ELSE MaxCacheSize)

\* The paths the cached classifier is called with: paths that differ in
\* case or directory only, and paths that share a suffix only.
CachePaths ==
    { <<"a">>, <<"A">>, <<"a", ".", "a">>, <<"a", "/", "A", ".", "a">>,
      <<"a", "a", ".", "a">> }

\* A call of get_file_type through its lru_cache: a hit returns the cached
\* result, a miss computes it and caches it.
CachedGetFileType ==
    /\ pc \in {"start", "returned"}
    /\ pc' = "returned"
    /\ \E p \in CachePaths :
          LET hits == {i \in DOMAIN cache : cache[i].key = CacheKey(p)}
              result == IF hits # {} THEN cache[CHOOSE i \in hits : TRUE].value
                        ELSE get_file_type(table, p)
          IN  /\ fp' = p
              /\ filetype' = result
              /\ cache' = CacheAfter(cache, CacheKey(p), result)
    /\ UNCHANGED <<table, parseVars, windowVars, contribVars, analyzeVars, collaboratorVars>>

-----------------------------------------------------------------------------
(* commits.py: the commit normaliser.                                      *)

\* "total" and the five categories: the prefixes of the CommitSummary columns.
\* A CommitSummary is modelled with one function per metric, so that
\* cs.additions["prose"] stands for its field prose_additions.
FileSubsets == {"total"} \cup FileTypes

\* The per-commit counters as initialised at the top of the commit loop.
ZeroCounts ==
    [files_changed |-> [s \in FileSubsets |-> 0],
     additions     |-> [s \in FileSubsets |-> 0],
     deletions     |-> [s \in FileSubsets |-> 0],
     lines_changed |-> [s \in FileSubsets |-> 0]]

\* The branch of the if/elif chain a file type takes.
CountedAs(ft) ==
    IF ft \in {"programming", "markup", "prose", "data"} THEN ft ELSE "unknown"

\* The body of the file loop with the totals updated only for the files of
\* the four named categories.
UpdateCounts_SkipUnknownTotal(c, ft, file_stats) ==
    LET hit == IF CountedAs(ft) = "unknown" THEN {"unknown"} ELSE {"total", CountedAs(ft)}
        add(f, n) == [s \in FileSubsets |-> f[s] + IF s \in hit THEN n ELSE 0]
    IN  [files_changed |-> add(c.files_changed, 1),
         additions     |-> add(c.additions, file_stats.insertions),
         deletions     |-> add(c.deletions, file_stats.deletions),
         lines_changed |-> add(c.lines_changed, file_stats.lines)]

\* The body of the file loop with lines_changed fed by the insertions only.
UpdateCounts_LinesAreInsertions(c, ft, file_stats) ==
    LET hit == {"total", CountedAs(ft)}
        add(f, n) == [s \in FileSubsets |-> f[s] + IF s \in hit THEN n ELSE 0]
    IN  [files_changed |-> add(c.files_changed, 1),
         additions     |-> add(c.additions, file_stats.insertions),
         deletions     |-> add(c.deletions, file_stats.deletions),
         lines_changed |-> add(c.lines_changed, file_stats.insertions)]

\* The body of the file loop: the totals and the counters of the file's
\* category are updated.
UpdateCounts(c, ft, file_stats) ==
    LET hit == {"total", CountedAs(ft)}
        add(f, n) == [s \in FileSubsets |-> f[s] + IF s \in hit THEN n ELSE 0]
    IN  [files_changed |-> add(c.files_changed, 1),
         additions     |-> add(c.additions, file_stats.insertions),
         deletions     |-> add(c.deletions, file_stats.deletions),
         lines_changed |-> add(c.lines_changed, file_stats.lines)]

RECURSIVE CountFiles(_, _, _)
\* The file loop of one commit, from the counters c on.
CountFiles(tbl, files, c) ==
    IF files = <<>> THEN c
    ELSE LET f == Head(files)
         IN  CountFiles(tbl, Tail(files),
                        UpdateCounts(c, get_file_type(tbl, PathName(f.filename)), f))

\* The rows of one commit without those of the files it changes by no line.
FileDeltas_SkipUnchanged(tbl, commit) ==
    LET changed == SelectSeq(commit.files, LAMBDA f : f.lines > 0)
    IN  [i \in DOMAIN changed |->
            LET f == changed[i]
            IN  [authored_datetime  |-> commit.authored_date,
                 committed_datetime |-> commit.committed_date,
                 commit_hash        |-> commit.hexsha,
                 committer_name     |-> commit.committer_name,
                 committer_email    |-> commit.committer_email,
                 author_name        |-> commit.author_name,
                 author_email       |-> commit.author_email,
                 filename           |-> f.filename,
                 filetype           |-> get_file_type(tbl, PathName(f.filename)),
                 additions          |-> f.insertions,
                 deletions          |-> f.deletions,
                 lines_changed      |-> f.lines]]

\* The PerFileCommitDelta rows of one commit.
FileDeltas(tbl, commit) ==
    [i \in DOMAIN commit.files |->
        LET f == commit.files[i]
        IN  [authored_datetime  |-> commit.authored_date,
             committed_datetime |-> commit.committed_date,
             commit_hash        |-> commit.hexsha,
             committer_name     |-> commit.committer_name,
             committer_email    |-> commit.committer_email,
             author_name        |-> commit.author_name,
             author_email       |-> commit.author_email,
             filename           |-> f.filename,
             filetype           |-> get_file_type(tbl, PathName(f.filename)),
             additions          |-> f.insertions,
             deletions          |-> f.deletions,
             lines_changed      |-> f.lines]]

\* The CommitSummary row of one commit.
Summary(tbl, commit) ==
    LET c == CountFiles(tbl, commit.files, ZeroCounts)
    IN  [authored_datetime  |-> commit.authored_date,
         committed_datetime |-> commit.committed_date,
         commit_hash        |-> commit.hexsha,
         committer_name     |-> commit.committer_name,
         committer_email    |-> commit.committer_email,
         author_name        |-> commit.author_name,
         author_email       |-> commit.author_email,
         files_changed      |-> c.files_changed,
         additions          |-> c.additions,
         deletions          |-> c.deletions,
         lines_changed      |-> c.lines_changed]

RECURSIVE Concat(_)
Concat(ss) == IF ss = <<>> THEN <<>> ELSE Head(ss) \o Concat(Tail(ss))

\* parse_commits(repo): the two tables.
parse_commits(tbl, commits) ==
    [per_file_commit_deltas |-> Concat([i \in DOMAIN commits |-> FileDeltas(tbl, commits[i])]),
     commit_summaries       |-> [i \in DOMAIN commits |-> Summary(tbl, commits[i])]]

\* The e-mail address the modelled histories record beside a name.
EmailOf(name) ==
    CASE name = "dependabot[bot]" -> "49699333+dependabot[bot]@users.noreply.github.com"
      [] name = "GitHub"          -> "noreply@github.com"
      [] name = "web-flow"        -> "noreply@github.com"
      [] OTHER                    -> "dev@example.org"

\* The files the commits of the modelled repositories change, in the order
\* git lists them, with the statistics git reports for each: GitPython sets
\* lines to insertions + deletions, and a binary or mode-only change has all
\* three 0.  Under FILE_FORMATS_TO_DTYPE_DF the first two are unknown, the
\* others data, markup, programming and prose.
RepoFiles ==
    << [filename |-> <<"a">>,           insertions |-> 1, deletions |-> 2, lines |-> 3],
       [filename |-> <<"a", ".", "a">>, insertions |-> 0, deletions |-> 0, lines |-> 0],
       [filename |-> <<"a", ".", "d">>, insertions |-> 0, deletions |-> 0, lines |-> 0],
       [filename |-> <<"a", ".", "m">>, insertions |-> 2, deletions |-> 0, lines |-> 2],
       [filename |-> <<"a", ".", "p">>, insertions |-> 1, deletions |-> 1, lines |-> 2],
       [filename |-> <<"a", ".", "r">>, insertions |-> 0, deletions |-> 1, lines |-> 1] >>
\* The file lists of a commit: at most MaxFiles of these files, in git's order.
FileLists ==
    {fs \in SeqsUpTo(DOMAIN RepoFiles, MaxFiles) :
        \A i \in 1..(Len(fs) - 1) : fs[i] < fs[i + 1]}
\* commit.stats.files of a commit that changes the files fl.
RawFiles(fl) == [i \in DOMAIN fl |-> RepoFiles[fl[i]]]
\* The commit iter_commits yields after the commits in done: the history is
\* walked from the newest commit back.
NextCommit(done, fl) ==
    [hexsha         |-> Len(done) + 1,
     committer_name |-> "alice",
     committer_email |-> EmailOf("alice"),
     author_name    |-> "alice",
     author_email   |-> EmailOf("alice"),
     authored_date  |-> MaxCommits - Len(done),
     committed_date |-> MaxCommits - Len(done),
     files          |-> RawFiles(fl)]

\* One iteration of the commit loop of parse_commits, on the next commit
\* of the history: its file rows and its summary row are appended.
ParseCommit ==
    /\ pc = "start"
    /\ Len(repo) < MaxCommits
    /\ \E fl \in FileLists :
          LET commit == NextCommit(repo, fl)
          IN  /\ repo' = Append(repo, commit)
              /\ per_file_commit_deltas' =
                     per_file_commit_deltas \o FileDeltas(table, commit)
              /\ per_commit_summaries' = Append(per_commit_summaries, Summary(table, commit))
    /\ UNCHANGED <<pc, classifierVars, windowVars, contribVars, analyzeVars, collaboratorVars>>

\* The history is exhausted: parse_commits returns the two tables.
ParseReturn ==
    /\ pc = "start"
    /\ pc' = "returned"
    /\ UNCHANGED <<classifierVars, parseVars, windowVars, contribVars, analyzeVars, collaboratorVars>>

-----------------------------------------------------------------------------
(* timeseries.py: the time-window bucketer.                                *)

\* An optional datetime: <<>> is None, <<t>> the datetime t.
NoDatetime == <<>>
Some(t) == <<t>>

\* math.floor(a / b) for integers, b # 0.
FloorDiv(a, b) == IF b > 0 THEN a \div b ELSE (-a) \div (-b)
\* math.ceil(a / b) for integers, b # 0.
CeilDiv(a, b) == -FloorDiv(-a, b)

\* n_tds rounded down instead of up.
NumPeriods_Floor(change_duration, td) == FloorDiv(change_duration, td)

\* n_tds = math.ceil(change_duration / td)
NumPeriods(change_duration, td) == CeilDiv(change_duration, td)

\* commits_df[datetime_col] as a sequence.
Column(df, col) == [k \in DOMAIN df |-> df[k][col]]

\* Series.min() and Series.max(): None on an empty column.
ColMin(df, col) ==
    IF df = <<>> THEN NoDatetime
    ELSE Some(CHOOSE t \in Range(Column(df, col)) : \A u \in Range(Column(df, col)) : t <= u)
ColMax(df, col) ==
    IF df = <<>> THEN NoDatetime
    ELSE Some(CHOOSE t \in Range(Column(df, col)) : \A u \in Range(Column(df, col)) : t >= u)

\* The start and end a call uses: the argument, or the column's min / max.
StartOf(df, start, col) == IF start = NoDatetime THEN ColMin(df, col) ELSE start
EndOf(df, end, col) == IF end = NoDatetime THEN ColMax(df, col) ELSE end

\* is_between(lower, upper, closed="both"): the upper bound included.
InPeriod_ClosedBoth(t, lower, upper) == lower <= t /\ t <= upper

\* pl.col(datetime_col).is_between(lower, upper, closed="left")
InPeriod(t, lower, upper) == lower <= t /\ t < upper

\* The rows of df (their positions) in the period that starts at current.
CommitSubset(df, col, current, td) ==
    {k \in DOMAIN df : InPeriod(df[k][col], current, current + td)}

\* A sum of the column over every row of the table, whatever the period.
SumColumn_WholeTable(df, subset, metric, file_subset) ==
    SumSeq([k \in DOMAIN df |-> df[k][metric][file_subset]])

\* commit_subset[column].sum(): 0 for no rows.
SumColumn(df, subset, metric, file_subset) ==
    SumSeq([k \in DOMAIN df |-> IF k \in subset THEN df[k][metric][file_subset] ELSE 0])

\* What one iteration of the period loop appends to the twelve lists:
\* binary["total"] is periods_changed_binary, binary[c] is
\* periods_<c>_files_changed_binary, count[s] is periods_<s>_lines_changed_count.
PeriodEntry(df, subset) ==
    [commit_subset |-> subset,
     binary |-> [s \in FileSubsets |->
                    IF s = "total"
                    THEN (IF Cardinality(subset) > 0 THEN 1 ELSE 0)
                    ELSE Cardinality({k \in subset : df[k].files_changed[s] > 0})],
     count  |-> [s \in FileSubsets |-> SumColumn(df, subset, "lines_changed", s)]]

RECURSIVE PeriodLoop(_, _, _, _, _)
\* The period loop: left iterations to go, the next period starting at
\* current_process_date.
PeriodLoop(df, col, td, current_process_date, left) ==
    IF left <= 0 THEN <<>>
    ELSE <<PeriodEntry(df, CommitSubset(df, col, current_process_date, td))>>
         \o PeriodLoop(df, col, td, current_process_date + td, left - 1)

\* Whether get_periods_changed raises: the subtraction of a None bound (an
\* empty table with no start or end given) or the division by a zero span.
PeriodsRaises(df, td, start, end, col) ==
    \/ StartOf(df, start, col) = NoDatetime
    \/ EndOf(df, end, col) = NoDatetime
    \/ td = 0

\* get_periods_changed, when it returns: the CommitPeriodResults, with the
\* commit_subset of each period beside the twelve series.
get_periods_changed(df, td, start, end, col) ==
    LET start_datetime_dt == StartOf(df, start, col)[1]
        end_datetime_dt == EndOf(df, end, col)[1]
        change_duration == end_datetime_dt - start_datetime_dt
        n_tds == NumPeriods(change_duration, td)
        loop == PeriodLoop(df, col, td, start_datetime_dt, n_tds)
    IN  [period_span     |-> td,
         start_datetime  |-> start_datetime_dt,
         end_datetime    |-> end_datetime_dt,
         datetime_column |-> col,
         n_tds           |-> n_tds,
         commit_subset   |-> [i \in DOMAIN loop |-> loop[i].commit_subset],
         binary |-> [s \in FileSubsets |-> [i \in DOMAIN loop |-> loop[i].binary[s]]],
         count  |-> [s \in FileSubsets |-> [i \in DOMAIN loop |-> loop[i].count[s]]]]

\* A call of get_periods_changed (by the caller, or by
\* compute_timeseries_metrics, which hands it the start and end it derived
\* the same way).
GetPeriodsChanged ==
    /\ pc = "start"
    /\ IF PeriodsRaises(commits_df, period_span, start_datetime, end_datetime, datetime_col)
       THEN /\ pc' = "raised"
            /\ UNCHANGED periods
       ELSE /\ pc' = "periods"
            /\ periods' = get_periods_changed(commits_df, period_span, start_datetime,
                                              end_datetime, datetime_col)
    /\ UNCHANGED <<classifierVars, parseVars, windowArgs, tsmetrics, contribVars, analyzeVars, collaboratorVars>>

-----------------------------------------------------------------------------
(* timeseries.py: the statistics of the series.                            *)

\* A float is NaN or a record that names the number exactly:
\*   [entropy_of |-> arr]   the base-2 Shannon entropy of arr / sum(arr)
\*                          (0.0 for the empty arr),
\*   [sq_num, sq_den]       the number whose square is sq_num / sq_den,
\*   [num, den]             num / den.
NaN == [nan |-> TRUE]

SumSquares(arr) == SumSeq([i \in DOMAIN arr |-> arr[i] * arr[i]])

\* An entropy that is NaN as soon as an entry is 0, as the sum of the
\* p * log2(p) is when 0 * log2(0) is not taken to be 0.
compute_entropy_ZeroIsNaN(arr, empty_is_nan) ==
    IF arr = <<>> THEN (IF empty_is_nan THEN NaN ELSE [nan |-> FALSE, entropy_of |-> arr])
    ELSE IF \E i \in DOMAIN arr : arr[i] = 0 THEN NaN
    ELSE [nan |-> FALSE, entropy_of |-> arr]

\* _compute_entropy: entropy(arr / np.sum(arr), base=2).  A zero sum makes
\* every probability 0/0; of the empty array scipy returns 0.0 or NaN,
\* depending on its version (empty_is_nan).
compute_entropy(arr, empty_is_nan) ==
    IF arr = <<>> THEN (IF empty_is_nan THEN NaN ELSE [nan |-> FALSE, entropy_of |-> arr])
    ELSE IF SumSeq(arr) = 0 THEN NaN
    ELSE [nan |-> FALSE, entropy_of |-> arr]

\* scipy.stats.variation: the population standard deviation over the mean;
\* NaN for the empty array and for a zero mean.
variation(arr) ==
    IF arr = <<>> \/ SumSeq(arr) = 0 THEN NaN
    ELSE [nan |-> FALSE,
          sq_num |-> Len(arr) * SumSquares(arr) - SumSeq(arr) * SumSeq(arr),
          sq_den |-> SumSeq(arr) * SumSeq(arr)]

\* _compute_frac: np.sum(arr) / len(arr); numpy's 0 / 0 is NaN.
compute_frac(arr) ==
    IF arr = <<>> THEN NaN
    ELSE [nan |-> FALSE, num |-> SumSeq(arr), den |-> Len(arr)]

\* The series the <s>_lines_changed_* metrics are computed from: the prose
\* metrics are handed the programming series.
LinesSeriesOf(s) == IF s = "prose" THEN "programming" ELSE s

\* The TimeseriesMetrics of a CommitPeriodResults r: for "total" the
\* changed_* and total_lines_changed_* metrics, for a category c the
\* c_files_changed_* and c_lines_changed_* metrics.
timeseries_metrics(r, empty_is_nan) ==
    [period_span     |-> r.period_span,
     start_datetime  |-> r.start_datetime,
     end_datetime    |-> r.end_datetime,
     datetime_column |-> r.datetime_column,
     changed_entropy   |-> [s \in FileSubsets |-> compute_entropy(r.binary[s], empty_is_nan)],
     changed_variation |-> [s \in FileSubsets |-> variation(r.binary[s])],
     changed_frac      |-> [s \in FileSubsets |-> compute_frac(r.binary[s])],
     lines_changed_entropy |->
        [s \in FileSubsets |-> compute_entropy(r.count[LinesSeriesOf(s)], empty_is_nan)],
     lines_changed_variation |->
        [s \in FileSubsets |-> variation(r.count[LinesSeriesOf(s)])]]

\* compute_timeseries_metrics after its call of get_periods_changed: the
\* statistics of the twelve series.
TimeseriesMetrics ==
    /\ pc = "periods"
    /\ pc' = "returned"
    /\ \E empty_is_nan \in BOOLEAN : tsmetrics' = timeseries_metrics(periods, empty_is_nan)
    /\ UNCHANGED <<classifierVars, parseVars, windowArgs, periods, contribVars, analyzeVars, collaboratorVars>>

\* The commits of the tables handed to the bucketer: the files each changes
\* (positions in RepoFiles), how long after its authoring it was committed,
\* and its author.
CommitKinds ==
    {[files |-> <<5>>,    skew |-> 0, author_name |-> "alice"],
     [files |-> <<1, 6>>, skew |-> 1, author_name |-> "bob"],
     [files |-> <<3, 4>>, skew |-> 0, author_name |-> "alice"]}
Absent == [files |-> <<>>, skew |-> -1, author_name |-> "<nobody>"]

RECURSIVE TableOfTimeline(_, _)
\* The CommitSummary table of the commits of a timeline (tick -> the commit
\* authored at that tick, or Absent), newest first, from tick t down.
TableOfTimeline(timeline, t) ==
    IF t < 0 THEN <<>>
    ELSE (IF timeline[t] = Absent THEN <<>>
          ELSE <<Summary(FILE_FORMATS_TO_DTYPE_DF,
                         [hexsha         |-> t + 1,
                          committer_name |-> timeline[t].author_name,
                          committer_email |-> EmailOf(timeline[t].author_name),
                          author_name    |-> timeline[t].author_name,
                          author_email   |-> EmailOf(timeline[t].author_name),
                          authored_date  |-> t,
                          committed_date |-> t + timeline[t].skew,
                          files          |-> RawFiles(timeline[t].files)])>>)
         \o TableOfTimeline(timeline, t - 1)

WindowTables ==
    {TableOfTimeline(tl, MaxTime) : tl \in [0..MaxTime -> CommitKinds \cup {Absent}]}
\* The spans tried: negative, zero, and positive ones that do and do not
\* divide the durations.
Spans == {-1, 0, 1, 2}
StartChoices == {NoDatetime, Some(0), Some(1)}
EndChoices == {NoDatetime, Some(0), Some(MaxTime - 1), Some(MaxTime)}
DatetimeCols == {"authored_datetime", "committed_datetime"}

-----------------------------------------------------------------------------
(* contributors.py: the contributor absence factor.                        *)

\* The rows of df whose chosen timestamp is in [start, end], both included.
ScopedRows(df, start, end, col) ==
    IF StartOf(df, start, col) = NoDatetime \/ EndOf(df, end, col) = NoDatetime
    THEN {}
    ELSE {k \in DOMAIN df :
            /\ df[k][col] >= StartOf(df, start, col)[1]
            /\ df[k][col] <= EndOf(df, end, col)[1]}

\* The keys of commits_df.group_by(contributor_name_col) over the rows.
ContributorsOf(df, rows, name_col) == {df[k][name_col] : k \in rows}

\* The orders group_by may yield the groups in: it promises none.
GroupOrders(names) ==
    {o \in [1..Cardinality(names) -> names] : \A i, j \in DOMAIN o : i # j => o[i] # o[j]}

\* contributor_group[lines_changed_col].sum() of each group, in the order the
\* groups come.
LinesChangedPerContrib(df, rows, name_col, order, file_subset) ==
    [i \in DOMAIN order |->
        SumColumn(df, {k \in rows : df[k][name_col] = order[i]}, "lines_changed", file_subset)]

RECURSIVE SortedDescending(_)
\* sorted(lines_changed_per_contrib, reverse=True)
SortedDescending(xs) ==
    IF xs = <<>> THEN <<>>
    ELSE LET i == CHOOSE j \in DOMAIN xs : \A k \in DOMAIN xs : xs[j] >= xs[k]
         IN  <<xs[i]>> \o SortedDescending(SubSeq(xs, 1, i - 1) \o SubSeq(xs, i + 1, Len(xs)))

RECURSIVE HalfLoop(_, _, _, _)
\* The accumulation loop from position i on: it stops at the first
\* contributor with whom current_total reaches half of the sum.
HalfLoop(desc, i, current_total, lines_changed_sum) ==
    IF i > Len(desc) THEN i - 1
    ELSE IF 2 * (current_total + desc[i]) >= lines_changed_sum THEN i
    ELSE HalfLoop(desc, i + 1, current_total + desc[i], lines_changed_sum)

\* The list accumulated in the order the groups come, not sorted.
contributors_to_half_Unsorted(lines_changed_per_contrib) ==
    HalfLoop(lines_changed_per_contrib, 1, 0, SumSeq(lines_changed_per_contrib))

\* contributors_to_half of one list of per-contributor sums.
contributors_to_half(lines_changed_per_contrib) ==
    LET descending_lines_changed_per_contrib == SortedDescending(lines_changed_per_contrib)
    IN  HalfLoop(descending_lines_changed_per_contrib, 1, 0,
                 SumSeq(descending_lines_changed_per_contrib))

\* compute_contributor_absence_factor, when it returns:
\* <file_subset>_contributor_absence_factor for each file subset.
contributor_absence_factor(df, start, end, name_col, col, order) ==
    [s \in FileSubsets |->
        contributors_to_half(
            LinesChangedPerContrib(df, ScopedRows(df, start, end, col), name_col, order, s))]

\* A call of compute_contributor_absence_factor.  Without a row in scope no
\* list is built and constructing the metrics fails for their missing fields.
AbsenceFactor ==
    /\ pc = "start"
    /\ LET rows == ScopedRows(commits_df, start_datetime, end_datetime, datetime_col)
           names == ContributorsOf(commits_df, rows, contributor_name_col)
       IN  IF names = {}
           THEN pc' = "raised" /\ UNCHANGED absence
           ELSE /\ pc' = "returned"
                /\ \E order \in GroupOrders(names) :
                      absence' = contributor_absence_factor(
                                    commits_df, start_datetime, end_datetime,
                                    contributor_name_col, datetime_col, order)
    /\ UNCHANGED <<classifierVars, parseVars, windowVars, contributor_name_col, stability, analyzeVars, collaboratorVars>>

\* What a contributor of the modelled histories has committed: the commits
\* (tick, files as positions in RepoFiles, committer).
ContributionKinds ==
    { <<>>,
      << [tick |-> 0, files |-> <<6>>, committer_name |-> "self"] >>,
      << [tick |-> 1, files |-> <<5>>, committer_name |-> "web-flow"] >>,
      << [tick |-> 2, files |-> <<4>>, committer_name |-> "self"],
         [tick |-> 0, files |-> <<6>>, committer_name |-> "web-flow"] >>,
      << [tick |-> 1, files |-> <<3>>, committer_name |-> "self"] >> }
ContributorNames == <<"alice", "bob", "carol", "dave", "erin", "frank">>

\* The CommitSummary rows of contributor i who committed kind.
RowsOfContributor(i, kind) ==
    [j \in DOMAIN kind |->
        Summary(FILE_FORMATS_TO_DTYPE_DF,
                [hexsha         |-> 10 * i + j,
                 committer_name |-> IF kind[j].committer_name = "self"
                                    THEN ContributorNames[i] ELSE kind[j].committer_name,
                 committer_email |-> IF kind[j].committer_name = "self"
                                     THEN EmailOf(ContributorNames[i])
                                     ELSE EmailOf(kind[j].committer_name),
                 author_name    |-> ContributorNames[i],
                 author_email   |-> EmailOf(ContributorNames[i]),
                 authored_date  |-> kind[j].tick,
                 committed_date |-> kind[j].tick + 1,
                 files          |-> RawFiles(kind[j].files)])]

\* The tables handed to the contributor metrics: the commits of at most
\* MaxContributors contributors.
ContributorTables ==
    {Concat([i \in 1..MaxContributors |-> RowsOfContributor(i, h[i])]) :
        h \in [1..MaxContributors -> ContributionKinds]}

-----------------------------------------------------------------------------
(* contributors.py: the contributor stability metrics.                     *)

\* The ticks of a day: datetimes are finer than days.
TicksPerDay == 2
\* timedelta.days: the whole days of a span of ticks, rounded down.
Days(ticks) == FloorDiv(ticks, TicksPerDay)

\* span_days of the contributor: the whole days from the first to the last
\* of the contributor's commits among the rows.
SpanDays(df, rows, name_col, col, name) ==
    LET stamps == {df[k][col] : k \in {r \in rows : df[r][name_col] = name}}
        first_commit == CHOOSE t \in stamps : \A u \in stamps : t <= u
        last_commit == CHOOSE t \in stamps : \A u \in stamps : t >= u
    IN  Days(last_commit - first_commit)

\* A classification that tells stable only above the threshold.
Stability_Above(span_days, td) ==
    IF span_days > Days(td) THEN "stable" ELSE "transient"

\* A classification with a class of its own for a single day's contributors.
Stability_ThreeWay(span_days, td) ==
    IF span_days >= Days(td) THEN "stable"
    ELSE IF span_days > 0 THEN "transient" ELSE "single"

\* if span_days >= td.days: "stable", else "transient"
Stability(span_days, td) ==
    IF span_days >= Days(td) THEN "stable" ELSE "transient"

\* sum(1 for x in xs if x == v)
CountOf(xs, v) == Cardinality({i \in DOMAIN xs : xs[i] = v})

RECURSIVE SortedAscending(_)
SortedAscending(xs) ==
    IF xs = <<>> THEN <<>>
    ELSE LET i == CHOOSE j \in DOMAIN xs : \A k \in DOMAIN xs : xs[j] <= xs[k]
         IN  <<xs[i]>> \o SortedAscending(SubSeq(xs, 1, i - 1) \o SubSeq(xs, i + 1, Len(xs)))

\* np.median: the middle of the sorted spans, or the mean of the two middle
\* ones, as num / den.
Median(xs) ==
    LET sorted == SortedAscending(xs)
        n == Len(xs)
    IN  IF n % 2 = 1 THEN [num |-> sorted[(n + 1) \div 2], den |-> 1]
        ELSE [num |-> sorted[n \div 2] + sorted[n \div 2 + 1], den |-> 2]

\* x / project_duration if project_duration > 0 else 0
Normalized(x, project_duration) ==
    IF project_duration > 0 THEN [num |-> x.num, den |-> x.den * project_duration]
    ELSE [num |-> 0, den |-> 1]

\* compute_contributor_stability_metrics, when it returns.
contributor_stability_metrics(df, td, start, end, name_col, col, order) ==
    LET rows == ScopedRows(df, start, end, col)
        project_duration == Days(EndOf(df, end, col)[1] - StartOf(df, start, col)[1])
        contributor_spans == [i \in DOMAIN order |-> SpanDays(df, rows, name_col, col, order[i])]
        contributor_stability == [i \in DOMAIN order |-> Stability(contributor_spans[i], td)]
        median_span == IF contributor_spans # <<>> THEN Median(contributor_spans)
                       ELSE [num |-> 0, den |-> 1]
        mean_span == IF contributor_spans # <<>>
                     THEN [num |-> SumSeq(contributor_spans), den |-> Len(contributor_spans)]
                     ELSE [num |-> 0, den |-> 1]
    IN  [stable_contributors_count           |-> CountOf(contributor_stability, "stable"),
         transient_contributors_count        |-> CountOf(contributor_stability, "transient"),
         median_contribution_span_days       |-> median_span,
         mean_contribution_span_days         |-> mean_span,
         normalized_median_contribution_span |-> Normalized(median_span, project_duration),
         normalized_mean_contribution_span   |-> Normalized(mean_span, project_duration)]

\* A call of compute_contributor_stability_metrics.  With an empty table and
\* no start or end given the bounds are None and their difference fails.
StabilityMetrics ==
    /\ pc = "start"
    /\ IF \/ StartOf(commits_df, start_datetime, datetime_col) = NoDatetime
          \/ EndOf(commits_df, end_datetime, datetime_col) = NoDatetime
       THEN pc' = "raised" /\ UNCHANGED stability
       ELSE /\ pc' = "returned"
            /\ \E order \in GroupOrders(ContributorsOf(
                                commits_df,
                                ScopedRows(commits_df, start_datetime, end_datetime,
                                           datetime_col),
                                contributor_name_col)) :
                  stability' = contributor_stability_metrics(
                                   commits_df, period_span, start_datetime, end_datetime,
                                   contributor_name_col, datetime_col, order)
    /\ UNCHANGED <<classifierVars, parseVars, windowVars, contributor_name_col, absence,
                   analyzeVars, collaboratorVars>>

\* What a contributor of the histories handed to the stability metrics has
\* committed: nothing; one commit; two commits a day and a half apart; two
\* commits two days apart, which GitHub committed.
StabilityKinds ==
    { <<>>,
      << [tick |-> 6, files |-> <<5>>, committer_name |-> "self"] >>,
      << [tick |-> 3, files |-> <<6>>, committer_name |-> "self"],
         [tick |-> 0, files |-> <<5>>, committer_name |-> "self"] >>,
      << [tick |-> 5, files |-> <<4>>, committer_name |-> "web-flow"],
         [tick |-> 1, files |-> <<5>>, committer_name |-> "web-flow"] >> }

StabilityTables ==
    {Concat([i \in 1..MaxContributors |-> RowsOfContributor(i, h[i])]) :
        h \in [1..MaxContributors -> StabilityKinds]}

-----------------------------------------------------------------------------
(* main.py: the orchestrator _analyze_repository.                          *)

\* The None that _analyze_repository returns in place of a record.
NoMetrics == [none |-> TRUE]
\* The commit count below which the analysis is skipped.
MinCommits == 5
\* The defaults of bot_names and bot_email_indicators.
BotNames == {"dependabot", "github"}
BotEmailIndicators == {"[bot]"}

\* Whether the lowercased text contains the indicator, for the names, the
\* e-mail addresses and the indicators of the modelled histories.
LowercaseContains(text, indicator) ==
    <<text, indicator>> \in
        {<<"dependabot[bot]", "dependabot">>,
         <<"GitHub", "github">>,
         <<"49699333+dependabot[bot]@users.noreply.github.com", "dependabot">>,
         <<"49699333+dependabot[bot]@users.noreply.github.com", "[bot]">>,
         <<"49699333+dependabot[bot]@users.noreply.github.com", "github">>,
         <<"noreply@github.com", "github">>}

\* utils.filter_changes_to_dt_range: the rows whose timestamp is in
\* [start, end], and the start and end used, each the argument or the
\* column's min / max.
filter_changes_to_dt_range(changes_df, start, end, col) ==
    LET start_dt == StartOf(changes_df, start, col)
        end_dt == EndOf(changes_df, end, col)
        InRange(row) == start_dt[1] <= row[col] /\ row[col] <= end_dt[1]
    IN  [changes_df        |-> SelectSeq(changes_df, InRange),
         start_datetime_dt |-> start_dt,
         end_datetime_dt   |-> end_dt]

\* Whether the bot filter attributes the row to an automated account: a bot
\* name in the author's or the committer's name, or an indicator in the
\* author's or the committer's e-mail address.
IsBotChange(row, bot_names, bot_email_indicators) ==
    \/ \E b \in bot_names :
          LowercaseContains(row.author_name, b) \/ LowercaseContains(row.committer_name, b)
    \/ \E e \in bot_email_indicators :
          LowercaseContains(row.author_email, e) \/ LowercaseContains(row.committer_email, e)

\* A filter that drops, beside the rows of bots, the first row that is left.
remove_bot_changes_AndFirstRow(changes_df, bot_names, bot_email_indicators) ==
    LET Kept(row) == ~IsBotChange(row, bot_names, bot_email_indicators)
        kept == SelectSeq(changes_df, Kept)
        rest == IF kept = <<>> THEN kept ELSE Tail(kept)
    IN  [changes_df |-> rest, bot_changes_count |-> Len(changes_df) - Len(rest)]

\* commits.normalize_changes_df_and_remove_bot_changes: the table without
\* the rows of bots, and how many rows that removed.
normalize_changes_df_and_remove_bot_changes(changes_df, bot_names, bot_email_indicators) ==
    LET Kept(row) == ~IsBotChange(row, bot_names, bot_email_indicators)
        kept == SelectSeq(changes_df, Kept)
    IN  [changes_df |-> kept, bot_changes_count |-> Len(changes_df) - Len(kept)]

\* parse_commits of the repository.
AnalyzeParse ==
    /\ pc = "start"
    /\ pc' = "parsed"
    /\ commits_df' = parse_commits(table, repo).commit_summaries
    /\ per_file_commit_deltas_df' = parse_commits(table, repo).per_file_commit_deltas
    /\ UNCHANGED <<classifierVars, parseVars, period_span, start_datetime, end_datetime,
                   datetime_col, periods, tsmetrics, contribVars, all_metrics, collaboratorVars>>

\* if len(commits_df) < 5: return None
AnalyzeSkip ==
    /\ pc = "parsed"
    /\ Len(commits_df) < MinCommits
    /\ pc' = "returned"
    /\ all_metrics' = NoMetrics
    /\ UNCHANGED <<classifierVars, parseVars, windowVars, contribVars, per_file_commit_deltas_df, collaboratorVars>>

\* Both tables restricted to the requested range; the record is begun with
\* the metadata.
AnalyzeFilterRange ==
    /\ pc = "parsed"
    /\ Len(commits_df) >= MinCommits
    /\ pc' = "scoped"
    /\ LET scoped == filter_changes_to_dt_range(commits_df, start_datetime, end_datetime,
                                                datetime_col)
       IN  /\ commits_df' = scoped.changes_df
           /\ all_metrics' = [meta_start_datetime |-> scoped.start_datetime_dt,
                              meta_end_datetime   |-> scoped.end_datetime_dt]
    /\ per_file_commit_deltas_df' =
          filter_changes_to_dt_range(per_file_commit_deltas_df, start_datetime,
                                     end_datetime, datetime_col).changes_df
    /\ UNCHANGED <<classifierVars, parseVars, period_span, start_datetime, end_datetime,
                   datetime_col, periods, tsmetrics, contribVars, collaboratorVars>>

\* A bot-filter stage that filters the per-commit table only.
AnalyzeRemoveBots_CommitsOnly ==
    /\ pc = "scoped"
    /\ pc' = "filtered"
    /\ LET kept == normalize_changes_df_and_remove_bot_changes(
                       commits_df, BotNames, BotEmailIndicators)
       IN  /\ commits_df' = kept.changes_df
           /\ all_metrics' = all_metrics @@ [bot_changes_count |-> kept.bot_changes_count]
    /\ UNCHANGED <<classifierVars, parseVars, period_span, start_datetime, end_datetime,
                   datetime_col, periods, tsmetrics, contribVars, per_file_commit_deltas_df,
                   collaboratorVars>>

\* The bot changes removed from both tables, and the count of the removed
\* commits recorded.
AnalyzeRemoveBots ==
    /\ pc = "scoped"
    /\ pc' = "filtered"
    /\ LET kept == normalize_changes_df_and_remove_bot_changes(
                       commits_df, BotNames, BotEmailIndicators)
       IN  /\ commits_df' = kept.changes_df
           /\ all_metrics' = all_metrics @@ [bot_changes_count |-> kept.bot_changes_count]
    /\ per_file_commit_deltas_df' =
          normalize_changes_df_and_remove_bot_changes(
              per_file_commit_deltas_df, BotNames, BotEmailIndicators).changes_df
    /\ UNCHANGED <<classifierVars, parseVars, period_span, start_datetime, end_datetime,
                   datetime_col, periods, tsmetrics, contribVars, collaboratorVars>>

\* What a statistic of a table is, for the statistics whose functions are
\* not modelled: the value the function has for the rows of these commits,
\* which in one run are known by their hashes.
ComputedFrom(df) == [of_rows |-> [k \in DOMAIN df |-> df[k].commit_hash]]

\* The stage with its statistics computed from the commits as parsed.
AnalyzeCommitCounts_FromParsed ==
    /\ pc = "filtered"
    /\ pc' = "counted"
    /\ all_metrics' = all_metrics @@
          [commit_counts          |-> ComputedFrom(parse_commits(table, repo).commit_summaries),
           important_change_dates |-> ComputedFrom(parse_commits(table, repo).commit_summaries)]
    /\ UNCHANGED <<classifierVars, parseVars, windowVars, contribVars,
                   per_file_commit_deltas_df, collaboratorVars>>

\* compute_commit_counts and compute_important_change_dates of commits_df.
AnalyzeCommitCounts ==
    /\ pc = "filtered"
    /\ pc' = "counted"
    /\ all_metrics' = all_metrics @@
          [commit_counts          |-> ComputedFrom(commits_df),
           important_change_dates |-> ComputedFrom(commits_df)]
    /\ UNCHANGED <<classifierVars, parseVars, windowVars, contribVars,
                   per_file_commit_deltas_df, collaboratorVars>>

\* compute_timeseries_metrics of the period span, called with the start and
\* end the caller gave.
AnalyzeTimeseries ==
    /\ pc = "counted"
    /\ IF PeriodsRaises(commits_df, period_span, start_datetime, end_datetime, datetime_col)
       THEN pc' = "raised" /\ UNCHANGED all_metrics
       ELSE /\ pc' = "timeseries"
            /\ \E empty_is_nan \in BOOLEAN :
                  all_metrics' = all_metrics @@
                      [timeseries_metrics |->
                          timeseries_metrics(
                              get_periods_changed(commits_df, period_span, start_datetime,
                                                  end_datetime, datetime_col),
                              empty_is_nan)]
    /\ UNCHANGED <<classifierVars, parseVars, windowVars, contribVars,
                   per_file_commit_deltas_df, collaboratorVars>>

\* compute_contributor_stability_metrics of the period span, called with the
\* start and end the caller gave.
AnalyzeStability ==
    /\ pc = "timeseries"
    /\ IF \/ StartOf(commits_df, start_datetime, datetime_col) = NoDatetime
          \/ EndOf(commits_df, end_datetime, datetime_col) = NoDatetime
       THEN pc' = "raised" /\ UNCHANGED all_metrics
       ELSE /\ pc' = "stability"
            /\ \E order \in GroupOrders(ContributorsOf(
                                commits_df,
                                ScopedRows(commits_df, start_datetime, end_datetime,
                                           datetime_col),
                                contributor_name_col)) :
                  all_metrics' = all_metrics @@
                      [contributor_stability_metrics |->
                          contributor_stability_metrics(
                              commits_df, period_span, start_datetime, end_datetime,
                              contributor_name_col, datetime_col, order)]
    /\ UNCHANGED <<classifierVars, parseVars, windowVars, contribVars,
                   per_file_commit_deltas_df, collaboratorVars>>

\* compute_contributor_absence_factor, called with the start and end the
\* caller gave.
AnalyzeAbsenceFactor ==
    /\ pc = "stability"
    /\ LET rows == ScopedRows(commits_df, start_datetime, end_datetime, datetime_col)
           names == ContributorsOf(commits_df, rows, contributor_name_col)
       IN  IF names = {}
           THEN pc' = "raised" /\ UNCHANGED all_metrics
           ELSE /\ pc' = "absence"
                /\ \E order \in GroupOrders(names) :
                      all_metrics' = all_metrics @@
                          [contributor_absence_factor |->
                              contributor_absence_factor(
                                  commits_df, start_datetime, end_datetime,
                                  contributor_name_col, datetime_col, order)]
    /\ UNCHANGED <<classifierVars, parseVars, windowVars, contribVars,
                   per_file_commit_deltas_df, collaboratorVars>>

\* compute_contributor_distribution_metrics of the per-file table, called
\* with the start and end the caller gave; then the record is returned.
AnalyzeDistribution ==
    /\ pc = "absence"
    /\ pc' = "returned"
    /\ all_metrics' = all_metrics @@
          [contributor_distribution_metrics |->
              ComputedFrom(per_file_commit_deltas_df)
                  @@ [start_datetime |-> start_datetime, end_datetime |-> end_datetime]]
    /\ UNCHANGED <<classifierVars, parseVars, windowVars, contribVars,
                   per_file_commit_deltas_df, collaboratorVars>>

\* The commits of the histories handed to the orchestrator: two people, and
\* a dependency bot whose commits GitHub commits.
HistoryKinds ==
    {[files |-> <<5>>,    author_name |-> "alice",           committer_name |-> "alice"],
     [files |-> <<1, 6>>, author_name |-> "bob",             committer_name |-> "bob"],
     [files |-> <<3, 4>>, author_name |-> "dependabot[bot]", committer_name |-> "GitHub"]}

\* The history iter_commits yields for the kinds: newest first, one commit
\* a tick.
HistoryOf(kinds) ==
    [k \in DOMAIN kinds |->
        [hexsha          |-> k,
         committer_name  |-> kinds[k].committer_name,
         committer_email |-> EmailOf(kinds[k].committer_name),
         author_name     |-> kinds[k].author_name,
         author_email    |-> EmailOf(kinds[k].author_name),
         authored_date   |-> Len(kinds) - k,
         committed_date  |-> Len(kinds) - k,
         files           |-> RawFiles(kinds[k].files)]]

Histories ==
    UNION {{HistoryOf(kinds) : kinds \in [1..n -> HistoryKinds]} :
              n \in (MinCommits - 1)..MaxHistory}

-----------------------------------------------------------------------------
(* source.py: compute_sloc.                                                *)

\* What HEAD is: a branch and the commit at its tip, or, detached, a commit.
OnBranch(branch, tip) == [ref |-> branch, commit |-> tip]
Detached(hexsha) == [ref |-> "<detached>", commit |-> hexsha]

\* repo.git.checkout(latest_commit_hexsha) when it succeeds: HEAD is
\* detached at the commit.
GitCheckoutCommit(at, hexsha) == Detached(hexsha)

\* repo.git.checkout("HEAD"): HEAD names where the repository is, so the
\* checkout leaves it there.
GitCheckoutHEAD(at) == at

\* The commit hashes get_commit_hash_for_target_datetime can return for the
\* table: the hash of one of its commits.
TargetCommitHashes(df) == {df[k].commit_hash : k \in DOMAIN df}

\* The files of a pygount report.
PygountFiles ==
    { [path |-> <<"a", "/", "a", ".", "p">>, codeCount |-> 2, documentationCount |-> 1],
      [path |-> <<"a", ".", "r">>,           codeCount |-> 0, documentationCount |-> 3],
      [path |-> <<"a">>,                     codeCount |-> 1, documentationCount |-> 0] }
\* The "files" of the reports json.loads(pygount_output.stdout) can give.
PygountReports ==
    {<<>>}
        \cup {<<f>> : f \in PygountFiles}
        \cup {<<f, g>> : f \in PygountFiles, g \in PygountFiles}

RECURSIVE SlocLoop(_, _)
\* The loop over sloc_results["files"]: each file is added to the total and
\* to the counters of its type.
SlocLoop(files, c) ==
    IF files = <<>> THEN c
    ELSE LET file == Head(files)
             file_type == get_file_type(FILE_FORMATS_TO_DTYPE_DF, file.path)
             Add(counts, n) ==
                 [x \in FileSubsets |->
                     IF x = "total" \/ x = file_type THEN counts[x] + n ELSE counts[x]]
         IN  SlocLoop(Tail(files),
                      [lines_of_code     |-> Add(c.lines_of_code, file.codeCount),
                       lines_of_comments |-> Add(c.lines_of_comments, file.documentationCount)])

\* The SLOCResults of a report.
SLOCResults(files) ==
    SlocLoop(files, [lines_of_code     |-> [x \in FileSubsets |-> 0],
                     lines_of_comments |-> [x \in FileSubsets |-> 0]])

\* The lookup of the commit and repo.git.checkout(latest_commit_hexsha).
\* The lookup is before the try; a checkout that fails leaves HEAD alone.
SlocCheckout ==
    /\ pc = "start"
    /\ \/ /\ TargetCommitHashes(commits_df) = {}
          /\ pc' = "raised"
          /\ UNCHANGED head
       \/ \E latest_commit_hexsha \in TargetCommitHashes(commits_df) :
             \/ pc' = "checked out" /\ head' = GitCheckoutCommit(head, latest_commit_hexsha)
             \/ pc' = "failing" /\ UNCHANGED head
    /\ UNCHANGED <<classifierVars, parseVars, windowVars, contribVars, analyzeVars, sloc,
                   platformVars>>

\* pygount is run and its report is read and summed; any step of it can
\* fail.
SlocCount ==
    /\ pc = "checked out"
    /\ \/ pc' = "failing" /\ UNCHANGED sloc
       \/ \E report \in PygountReports :
             pc' = "returning" /\ sloc' = SLOCResults(report)
    /\ UNCHANGED <<classifierVars, parseVars, windowVars, contribVars, analyzeVars, head,
                   platformVars>>

\* finally: repo.git.checkout("HEAD"), then the return or the exception.
SlocFinally ==
    /\ pc \in {"returning", "failing"}
    /\ head' = GitCheckoutHEAD(head)
    /\ pc' = IF pc = "returning" THEN "returned" ELSE "raised"
    /\ UNCHANGED <<classifierVars, parseVars, windowVars, contribVars, analyzeVars, sloc,
                   platformVars>>

-----------------------------------------------------------------------------
(* platform.py: compute_platform_metrics.                                  *)

\* max_tries of backoff.on_exception.
MaxTries == 3

\* Remote URLs, as sequences of pieces: the pieces the pattern tells apart
\* and pieces without a "/".
RemoteUrls ==
    { <<"git@github.com:", "o", "/", "r", ".git">>,
      <<"https://github.com/", "o", "/", "r">>,
      <<"https://github.com/", "o", "/", "r", ".git">>,
      <<"git@github.com:", "o", "o", "/", "r">>,
      <<"https://github.com/", "o", "/", "r", "/", "x">>,
      <<"https://github.com/", "o">>,
      <<"git@github.com:", "/", "r">>,
      <<"https://gitlab.com/", "o", "/", "r">> }

\* re.match(r"(?:git@github\.com:|https://github\.com/)(?P<owner>[^/]+)/(?P<repo>.+)", url):
\* whether it matches, and what owner and the repo without a ".git" suffix
\* are then.
OwnerEnds(url) == {i \in 2..Len(url) : \A j \in 2..i : url[j] # "/"}
ParsesOwnerAndName(url) ==
    /\ url # <<>>
    /\ url[1] \in {"git@github.com:", "https://github.com/"}
    /\ \E i \in OwnerEnds(url) : i + 2 <= Len(url) /\ url[i + 1] = "/"
RepoOwner(url) ==
    LET i == CHOOSE k \in OwnerEnds(url) : k + 2 <= Len(url) /\ url[k + 1] = "/"
    IN  SubSeq(url, 2, i)
RepoName(url) ==
    LET i == CHOOSE k \in OwnerEnds(url) : k + 2 <= Len(url) /\ url[k + 1] = "/"
        repo_group == SubSeq(url, i + 2, Len(url))
    IN  IF repo_group[Len(repo_group)] = ".git"
        THEN SubSeq(repo_group, 1, Len(repo_group) - 1) ELSE repo_group

\* What api.repos.get can answer.
RepoData ==
    [stargazers_count : {0, 7}, forks_count : {0, 1},
     watchers_count : {7}, open_issues_count : {0},
     language : {"Python", "<null>"}]

\* The PlatformMetrics of an answer.
PlatformMetrics(repo_data) ==
    [stargazers_count             |-> repo_data.stargazers_count,
     forks_count                  |-> repo_data.forks_count,
     watchers_count               |-> repo_data.watchers_count,
     open_issues_count            |-> repo_data.open_issues_count,
     primary_programming_language |-> repo_data.language]

\* A retry loop that gives up one failure later.
GivesUp_OneLater(tries) == tries = MaxTries + 1

\* backoff's decision after a failed try: it gives up when the tries made
\* are max_tries.
GivesUp(tries) == tries = MaxTries

\* compute_platform_metrics up to its request: the remote URL is parsed, a
\* URL that does not parse raises ValueError.
PlatformParseRemote ==
    /\ pc = "start"
    /\ pc' = IF ParsesOwnerAndName(remote_url) THEN "requesting" ELSE "raised"
    /\ UNCHANGED <<classifierVars, parseVars, windowVars, contribVars, analyzeVars,
                   sourceVars, platformVars>>

\* One try of _request_platform_metrics_with_backoff under the decorator: it
\* returns the metrics of the answer, and the call returns; or it raises, and
\* backoff either gives up and raises the exception or waits and tries again.
PlatformAttempt ==
    /\ pc = "requesting"
    /\ \/ \E repo_data \in RepoData :
             /\ attempts' = Append(attempts, "returned")
             /\ platform_metrics' = PlatformMetrics(repo_data)
             /\ pc' = "returned"
       \/ /\ attempts' = Append(attempts, "raised")
          /\ pc' = IF GivesUp(Len(attempts')) THEN "raised" ELSE "requesting"
          /\ UNCHANGED platform_metrics
    /\ UNCHANGED <<classifierVars, parseVars, windowVars, contribVars, analyzeVars,
                   sourceVars, remote_url>>

ClassifierIdle ==
    /\ table = FILE_FORMATS_TO_DTYPE_DF
    /\ fp = <<>>
    /\ cache = <<>>
    /\ filetype = NotCalled

ParseIdle ==
    /\ repo = <<>>
    /\ per_file_commit_deltas = <<>>
    /\ per_commit_summaries = <<>>

WindowIdle ==
    /\ commits_df = <<>>
    /\ period_span = 0
    /\ start_datetime = NoDatetime
    /\ end_datetime = NoDatetime
    /\ datetime_col = "authored_datetime"
    /\ periods = <<>>
    /\ tsmetrics = <<>>

ContribIdle ==
    /\ contributor_name_col = "author_name"
    /\ absence = <<>>
    /\ stability = <<>>

AnalyzeIdle ==
    /\ per_file_commit_deltas_df = <<>>
    /\ all_metrics = <<>>

SourceIdle ==
    /\ head = OnBranch("main", 0)
    /\ sloc = <<>>

PlatformIdle ==
    /\ remote_url = <<>>
    /\ attempts = <<>>
    /\ platform_metrics = <<>>

InitClassify ==
    /\ pc = "start"
    /\ table \in Tables
    /\ fp \in Paths
    /\ cache = <<>>
    /\ filetype = NotCalled
    /\ ParseIdle
    /\ WindowIdle
    /\ ContribIdle
    /\ AnalyzeIdle
    /\ SourceIdle
    /\ PlatformIdle

SpecClassify == InitClassify /\ [][GetFileType]_vars

InitCache ==
    /\ pc = "start"
    /\ table \in Tables
    /\ fp = <<>>
    /\ cache = <<>>
    /\ filetype = NotCalled
    /\ ParseIdle
    /\ WindowIdle
    /\ ContribIdle
    /\ AnalyzeIdle
    /\ SourceIdle
    /\ PlatformIdle

SpecCache == InitCache /\ [][CachedGetFileType]_vars

InitParse ==
    /\ pc = "start"
    /\ ClassifierIdle
    /\ ParseIdle
    /\ WindowIdle
    /\ ContribIdle
    /\ AnalyzeIdle
    /\ SourceIdle
    /\ PlatformIdle

NextParse == ParseCommit \/ ParseReturn

SpecParse == InitParse /\ [][NextParse]_vars

\* What the loop has built is what parse_commits makes of the commits read.
ParseLoopIsParseCommits ==
    LET r == parse_commits(table, repo)
    IN  /\ per_file_commit_deltas = r.per_file_commit_deltas
        /\ per_commit_summaries = r.commit_summaries

InitWindows ==
    /\ pc = "start"
    /\ ClassifierIdle
    /\ ParseIdle
    /\ commits_df \in WindowTables
    /\ period_span \in Spans
    /\ start_datetime \in StartChoices
    /\ end_datetime \in EndChoices
    /\ datetime_col \in DatetimeCols
    /\ periods = <<>>
    /\ tsmetrics = <<>>
    /\ ContribIdle
    /\ AnalyzeIdle
    /\ SourceIdle
    /\ PlatformIdle

NextWindows == GetPeriodsChanged \/ TimeseriesMetrics

SpecWindows == InitWindows /\ [][NextWindows]_vars

InitAbsence ==
    /\ pc = "start"
    /\ ClassifierIdle
    /\ ParseIdle
    /\ commits_df \in ContributorTables
    /\ period_span = 0
    /\ start_datetime \in {NoDatetime, Some(0), Some(1)}
    /\ end_datetime \in {NoDatetime, Some(1), Some(2)}
    /\ datetime_col \in DatetimeCols
    /\ periods = <<>>
    /\ tsmetrics = <<>>
    /\ contributor_name_col \in {"author_name", "committer_name"}
    /\ absence = <<>>
    /\ stability = <<>>
    /\ AnalyzeIdle
    /\ SourceIdle
    /\ PlatformIdle

SpecAbsence == InitAbsence /\ [][AbsenceFactor]_vars

InitAnalyze ==
    /\ pc = "start"
    /\ ClassifierIdle
    /\ repo \in Histories
    /\ per_file_commit_deltas = <<>>
    /\ per_commit_summaries = <<>>
    /\ commits_df = <<>>
    /\ period_span = 2
    /\ start_datetime \in {NoDatetime, Some(1)}
    /\ end_datetime \in {NoDatetime, Some(MinCommits - 1)}
    /\ datetime_col = "authored_datetime"
    /\ periods = <<>>
    /\ tsmetrics = <<>>
    /\ ContribIdle
    /\ AnalyzeIdle
    /\ SourceIdle
    /\ PlatformIdle

NextAnalyze ==
    \/ AnalyzeParse
    \/ AnalyzeSkip
    \/ AnalyzeFilterRange
    \/ AnalyzeRemoveBots
    \/ AnalyzeCommitCounts
    \/ AnalyzeTimeseries
    \/ AnalyzeStability
    \/ AnalyzeAbsenceFactor
    \/ AnalyzeDistribution

SpecAnalyze == InitAnalyze /\ [][NextAnalyze]_vars

InitStability ==
    /\ pc = "start"
    /\ ClassifierIdle
    /\ ParseIdle
    /\ commits_df \in StabilityTables
    /\ period_span \in {-1, 1, 2, 3, 4}
    /\ start_datetime \in {NoDatetime, Some(0), Some(1)}
    /\ end_datetime \in {NoDatetime, Some(3), Some(6)}
    /\ datetime_col \in DatetimeCols
    /\ periods = <<>>
    /\ tsmetrics = <<>>
    /\ contributor_name_col \in {"author_name", "committer_name"}
    /\ absence = <<>>
    /\ stability = <<>>
    /\ AnalyzeIdle
    /\ SourceIdle
    /\ PlatformIdle

SpecStability == InitStability /\ [][StabilityMetrics]_vars

InitSloc ==
    /\ pc = "start"
    /\ ClassifierIdle
    /\ ParseIdle
    /\ commits_df \in WindowTables
    /\ period_span = 0
    /\ start_datetime = NoDatetime
    /\ end_datetime \in {NoDatetime, Some(1)}
    /\ datetime_col = "authored_datetime"
    /\ periods = <<>>
    /\ tsmetrics = <<>>
    /\ ContribIdle
    /\ AnalyzeIdle
    /\ head = OnBranch("main", IF commits_df = <<>> THEN 0 ELSE commits_df[1].commit_hash)
    /\ sloc = <<>>
    /\ PlatformIdle

NextSloc == SlocCheckout \/ SlocCount \/ SlocFinally

SpecSloc == InitSloc /\ [][NextSloc]_vars

InitPlatform ==
    /\ pc = "start"
    /\ ClassifierIdle
    /\ ParseIdle
    /\ WindowIdle
    /\ ContribIdle
    /\ AnalyzeIdle
    /\ SourceIdle
    /\ remote_url \in RemoteUrls
    /\ attempts = <<>>
    /\ platform_metrics = <<>>

NextPlatform == PlatformParseRemote \/ PlatformAttempt

SpecPlatform == InitPlatform /\ [][NextPlatform]_vars

-----------------------------------------------------------------------------
(* Claims.                                                                 *)

\* C2: every call of get_file_type returns one of the five categories,
\* whatever the path and the table.
C2_ClassifierTotal == pc = "returned" => filetype \in FileTypes

\* C2: the call has returned for a name that the exact-name rows give two
\* categories.
C2_Witness ==
    /\ pc = "returned"
    /\ Cardinality({r.type : r \in {q \in table : q.filename = Lower(PathName(fp))}}) = 2

\* The roll-up of a CommitSummary row: each total is the sum of the five
\* category counters.
RollsUp(cs) ==
    \A metric \in {"files_changed", "additions", "deletions", "lines_changed"} :
        cs[metric]["total"] =
            cs[metric]["programming"] + cs[metric]["markup"] + cs[metric]["prose"]
            + cs[metric]["data"] + cs[metric]["unknown"]

\* C1: in every CommitSummary row parse_commits produces, each total_X is the
\* sum of the five category X.
C1_RollUp ==
    pc = "returned" =>
        \A i \in DOMAIN per_commit_summaries : RollsUp(per_commit_summaries[i])

\* C1: a parsed repository holds a commit with no files and a commit whose
\* two files are of different categories, one of them unknown.
C1_Witness ==
    /\ pc = "returned"
    /\ \E i \in DOMAIN per_commit_summaries :
          per_commit_summaries[i].files_changed["total"] = 0
    /\ \E i \in DOMAIN per_commit_summaries :
          /\ per_commit_summaries[i].files_changed["unknown"] = 1
          /\ per_commit_summaries[i].lines_changed["unknown"] > 0
          /\ per_commit_summaries[i].lines_changed["prose"] > 0

-----------------------------------------------------------------------------
(* Claims about the bucketer.                                              *)

\* get_periods_changed has returned.
PeriodsReturned == pc \in {"periods", "returned"}

\* The timestamp of row k in the chosen column.
TimestampOf(k) == commits_df[k][datetime_col]

\* The window arguments are valid: a positive span and start <= end.
ValidWindow ==
    /\ period_span > 0
    /\ periods.start_datetime <= periods.end_datetime

\* The rows whose chosen timestamp t has
\* start + (i-1)*span <= t < start + i*span (i counted from 1).
RowsOfWindow(i) ==
    {k \in DOMAIN commits_df :
        /\ periods.start_datetime + (i - 1) * period_span <= TimestampOf(k)
        /\ TimestampOf(k) < periods.start_datetime + i * period_span}

\* C3: for valid window arguments the number n of windows is
\* ceil((end - start) / span), the least n with n * span >= end - start; each
\* of the twelve series has length n, and a window without commits is a 0
\* entry of every series.
C3_WindowCount ==
    (PeriodsReturned /\ ValidWindow) =>
        LET duration == periods.end_datetime - periods.start_datetime
            n == Len(periods.commit_subset)
        IN  /\ n * period_span >= duration
            /\ (n - 1) * period_span < duration
            /\ \A s \in FileSubsets :
                  /\ Len(periods.binary[s]) = n
                  /\ Len(periods.count[s]) = n
                  /\ \A i \in 1..n :
                        RowsOfWindow(i) = {} =>
                            periods.binary[s][i] = 0 /\ periods.count[s][i] = 0

\* C3: span 1 from 0 to 3 has given three windows, one of them without
\* commits and one with.
C3_Witness ==
    /\ PeriodsReturned
    /\ period_span = 1
    /\ periods.start_datetime = 0
    /\ periods.end_datetime = 3
    /\ Len(periods.binary["total"]) = 3
    /\ \E i \in 1..3 : RowsOfWindow(i) = {} /\ periods.count["total"][i] = 0
    /\ \E i \in 1..3 : periods.count["total"][i] > 0

\* C4: for a positive span, window i holds exactly the commits with
\* start + i*span <= t < start + (i+1)*span, its total series count exactly
\* these, and no commit is in two windows.
C4_Membership ==
    (PeriodsReturned /\ period_span > 0) =>
        /\ \A i \in DOMAIN periods.commit_subset :
              /\ periods.commit_subset[i] = RowsOfWindow(i)
              /\ periods.binary["total"][i] = (IF RowsOfWindow(i) = {} THEN 0 ELSE 1)
              /\ periods.count["total"][i] =
                    SumSeq([k \in DOMAIN commits_df |->
                               IF k \in RowsOfWindow(i)
                               THEN commits_df[k].lines_changed["total"] ELSE 0])
        /\ \A i, j \in DOMAIN periods.commit_subset :
              i # j => periods.commit_subset[i] \cap periods.commit_subset[j] = {}

\* C4: a commit lies exactly on the boundary between two windows and is in
\* the later one only.
C4_Witness ==
    /\ PeriodsReturned
    /\ period_span > 0
    /\ \E i \in DOMAIN periods.commit_subset : \E k \in DOMAIN commits_df :
          /\ i > 1
          /\ TimestampOf(k) = periods.start_datetime + (i - 1) * period_span
          /\ k \in periods.commit_subset[i]
          /\ k \notin periods.commit_subset[i - 1]

\* C5: for valid window arguments every commit whose chosen timestamp lies
\* in [start, end] is in exactly one window.
C5_EveryCommitInOneWindow ==
    (PeriodsReturned /\ ValidWindow) =>
        \A k \in DOMAIN commits_df :
            (periods.start_datetime <= TimestampOf(k) /\ TimestampOf(k) <= periods.end_datetime)
                => Cardinality({i \in DOMAIN periods.commit_subset :
                                   k \in periods.commit_subset[i]}) = 1

\* The window arguments of the call are invalid: the span is not positive,
\* or the start is after the end.
InvalidWindow ==
    \/ period_span <= 0
    \/ /\ StartOf(commits_df, start_datetime, datetime_col) # NoDatetime
       /\ EndOf(commits_df, end_datetime, datetime_col) # NoDatetime
       /\ StartOf(commits_df, start_datetime, datetime_col)[1]
             > EndOf(commits_df, end_datetime, datetime_col)[1]

\* C6: a call with invalid window arguments does not return: it fails.
C6_InvalidWindowFails == (pc # "start" /\ InvalidWindow) => pc = "raised"

\* A series without windows or whose entries sum to zero.
Degenerate(arr) == arr = <<>> \/ SumSeq(arr) = 0

\* C8: for valid window arguments, the entropy, the variation and the active
\* fraction of a series that has no windows or sums to zero are defined
\* values, not NaN.
C8_DegenerateDefined ==
    (pc = "returned" /\ ValidWindow) =>
        \A s \in FileSubsets :
            /\ Degenerate(periods.binary[s]) =>
                  /\ tsmetrics.changed_entropy[s] # NaN
                  /\ tsmetrics.changed_variation[s] # NaN
                  /\ tsmetrics.changed_frac[s] # NaN
            /\ Degenerate(periods.count[LinesSeriesOf(s)]) =>
                  /\ tsmetrics.lines_changed_entropy[s] # NaN
                  /\ tsmetrics.lines_changed_variation[s] # NaN

\* The per-contributor sums of file subset s that the call in the current
\* state accumulates, in one of the orders the groups may come in.
SumsPerContrib(s) ==
    LET rows == ScopedRows(commits_df, start_datetime, end_datetime, datetime_col)
        names == ContributorsOf(commits_df, rows, contributor_name_col)
    IN  LinesChangedPerContrib(commits_df, rows, contributor_name_col,
                               CHOOSE o \in GroupOrders(names) : TRUE, s)

\* C9: when the scoped grand total of a category is zero, the empty scoped
\* table included, the call returns and the absence factor of the category
\* is 0.
C9_ZeroTotalGivesZero ==
    (pc \in {"returned", "raised"}) =>
        \A s \in FileSubsets :
            SumSeq(SumsPerContrib(s)) = 0 => (pc = "returned" /\ absence[s] = 0)

\* The lists that come from v by moving d lines from a largest contributor to
\* a smaller one, without the receiver overtaking what the giver had.
Flattenings(v) ==
    {[v EXCEPT ![t[1]] = v[t[1]] - t[3], ![t[2]] = v[t[2]] + t[3]] :
        t \in {u \in (DOMAIN v) \X (DOMAIN v) \X (1..SumSeq(v)) :
                 /\ \A k \in DOMAIN v : v[u[1]] >= v[k]
                 /\ u[3] <= v[u[1]] - v[u[2]]}}

\* C10: with k contributors of equal positive sums the absence factor is
\* ceil(k / 2); with one contributor holding at least half of the grand total
\* it is 1; and moving contribution from the largest contributor to a smaller
\* one never decreases it.
C10_Concentration ==
    pc = "returned" =>
        \A s \in FileSubsets :
            LET v == SumsPerContrib(s)
            IN  /\ (\A i \in DOMAIN v : v[i] = v[1] /\ v[1] > 0)
                      => absence[s] = CeilDiv(Len(v), 2)
                /\ (\E i \in DOMAIN v : 2 * v[i] >= SumSeq(v)) => absence[s] = 1
                /\ \A v2 \in Flattenings(v) : contributors_to_half(v2) >= absence[s]

\* Three contributors of equal positive sums in one category, whose factor
\* is 2, in a call where a flattening of the totals strictly raises the
\* factor.
C10_Witness ==
    /\ pc = "returned"
    /\ \E s \in FileSubsets :
          LET v == SumsPerContrib(s)
          IN  Len(v) = 3 /\ v[1] > 0 /\ v[2] = v[1] /\ v[3] = v[1] /\ absence[s] = 2
    /\ \E v2 \in Flattenings(SumsPerContrib("total")) :
          contributors_to_half(v2) > absence["total"]

\* C7: the analysis never goes on to compute statistics over a scoped,
\* bot-filtered table of fewer than 5 commits: with such a table it returns
\* None.
C7_InsufficientHistory ==
    (pc \in {"filtered", "counted", "timeseries", "stability", "absence", "raised", "returned"}
        /\ all_metrics # NoMetrics)
        => Len(commits_df) >= MinCommits

-----------------------------------------------------------------------------
(* Claims about the contributor stability metrics.                         *)

\* The rows with the chosen timestamp in [start, end] of the current call.
RowsInScope ==
    {k \in DOMAIN commits_df :
        /\ commits_df[k][datetime_col] >= StartOf(commits_df, start_datetime, datetime_col)[1]
        /\ commits_df[k][datetime_col] <= EndOf(commits_df, end_datetime, datetime_col)[1]}

\* The distinct contributor identities among the rows in scope.
IdentitiesInScope == {commits_df[k][contributor_name_col] : k \in RowsInScope}

\* The whole days between the first and the last commit in scope of c.
DaysBetweenFirstAndLast(c) ==
    LET mine == {k \in RowsInScope : commits_df[k][contributor_name_col] = c}
        first == CHOOSE k \in mine : \A j \in mine : TimestampOf(k) <= TimestampOf(j)
        last == CHOOSE k \in mine : \A j \in mine : TimestampOf(k) >= TimestampOf(j)
    IN  (TimestampOf(last) - TimestampOf(first)) \div TicksPerDay

\* C11: the stable contributors are exactly those whose day-truncated
\* difference between last and first commit in scope is at least the day
\* count of period_span, the others are transient: the stable count and the
\* transient count are the sizes of these two sets.
C11_StabilityBoundary ==
    pc = "returned" =>
        /\ stability.stable_contributors_count =
              Cardinality({c \in IdentitiesInScope :
                             DaysBetweenFirstAndLast(c) >= period_span \div TicksPerDay})
        /\ stability.transient_contributors_count =
              Cardinality({c \in IdentitiesInScope :
                             DaysBetweenFirstAndLast(c) < period_span \div TicksPerDay})

\* A call with a whole number of days as period_span, a contributor exactly
\* that many days apart (the one stable contributor), one a day less and one
\* with a single commit (the two transient ones).
C11_Witness ==
    /\ pc = "returned"
    /\ period_span = 2 * TicksPerDay
    /\ \E c1, c2, c3 \in IdentitiesInScope :
          /\ DaysBetweenFirstAndLast(c1) = 2
          /\ DaysBetweenFirstAndLast(c2) = 1
          /\ Cardinality({k \in RowsInScope : commits_df[k][contributor_name_col] = c3}) = 1
    /\ stability.stable_contributors_count = 1
    /\ stability.transient_contributors_count = 2

\* C12: the stable count and the transient count add up to the number of
\* distinct contributor identities among the commits in scope.
C12_StabilityPartition ==
    pc = "returned" =>
        stability.stable_contributors_count + stability.transient_contributors_count
            = Cardinality(IdentitiesInScope)

\* Both classes are populated, and a contributor whose commits are all out
\* of scope is not counted.
C12_Witness ==
    /\ pc = "returned"
    /\ stability.stable_contributors_count > 0
    /\ stability.transient_contributors_count > 0
    /\ \E k \in DOMAIN commits_df : commits_df[k][contributor_name_col] \notin IdentitiesInScope

-----------------------------------------------------------------------------
(* Claims about the bot filter.                                            *)

-----------------------------------------------------------------------------
(* Claims about compute_sloc.                                              *)

\* C14: when compute_sloc has returned or raised, the repository is on the
\* branch it was on before the call, not detached at the commit that was
\* checked out for the count.
C14_CheckoutRestored ==
    pc \in {"returned", "raised"} =>
        head = OnBranch("main", IF commits_df = <<>> THEN 0 ELSE commits_df[1].commit_hash)

-----------------------------------------------------------------------------
(* Claims about the platform request.                                      *)

\* C15: a platform-metrics request is tried at most 3 times; a try that
\* returns is the last one and the call returns its metrics; and when all 3
\* tries have raised, the call has raised and has no metrics.
C15_BoundedRetry ==
    /\ Len(attempts) <= 3
    /\ \A i \in DOMAIN attempts :
          attempts[i] = "returned" =>
              i = Len(attempts) /\ pc = "returned" /\ platform_metrics # <<>>
    /\ (Len(attempts) = 3 /\ attempts[3] = "raised") =>
          pc = "raised" /\ platform_metrics = <<>>
    /\ (pc = "raised" /\ attempts # <<>>) => Len(attempts) = 3

\* Two tries have raised and the third has returned metrics.
C15_Witness ==
    /\ pc = "returned"
    /\ attempts = <<"raised", "raised", "returned">>
    /\ platform_metrics.stargazers_count = 7

-----------------------------------------------------------------------------
(* Claims about the entropy.                                               *)

\* Natural numbers of any size, as their digits to the base 1000, the least
\* significant first; 0 is the empty sequence.
RECURSIVE BigTimes(_, _, _)
\* b * k + carry for a small k.
BigTimes(b, k, carry) ==
    IF b = <<>>
    THEN (IF carry = 0 THEN <<>> ELSE <<carry % 1000>> \o BigTimes(<<>>, k, carry \div 1000))
    ELSE <<(Head(b) * k + carry) % 1000>>
             \o BigTimes(Tail(b), k, (Head(b) * k + carry) \div 1000)

RECURSIVE BigTimesPower(_, _, _)
\* b * k^e
BigTimesPower(b, k, e) == IF e = 0 THEN b ELSE BigTimesPower(BigTimes(b, k, 0), k, e - 1)

RECURSIVE BigLeq(_, _)
BigLeq(a, b) ==
    IF Len(a) # Len(b) THEN Len(a) < Len(b)
    ELSE IF a = <<>> THEN TRUE
    ELSE IF a[Len(a)] # b[Len(b)] THEN a[Len(a)] < b[Len(b)]
    ELSE BigLeq(SubSeq(a, 1, Len(a) - 1), SubSeq(b, 1, Len(b) - 1))

RECURSIVE BigTimesSelfPowers(_, _)
\* b times the product of the a^a over the entries a of arr (0^0 = 1).
BigTimesSelfPowers(b, arr) ==
    IF arr = <<>> THEN b
    ELSE BigTimesSelfPowers(BigTimesPower(b, Head(arr), Head(arr)), Tail(arr))

\* With S the sum of arr, the entropy H of arr / S is
\* log2(S) - (1 / S) * sum of a * log2(a), so that
\*   H >= 0        iff  product of a^a <= S^S,
\*   H <= log2(n)  iff  S^S <= n^S * product of a^a.
EntropyAtLeast0(arr) ==
    BigLeq(BigTimesSelfPowers(<<1>>, arr), BigTimesPower(<<1>>, SumSeq(arr), SumSeq(arr)))
EntropyAtMost0(arr) ==
    BigLeq(BigTimesPower(<<1>>, SumSeq(arr), SumSeq(arr)), BigTimesSelfPowers(<<1>>, arr))
EntropyAtMostLog2(arr, n) ==
    BigLeq(BigTimesPower(<<1>>, SumSeq(arr), SumSeq(arr)),
           BigTimesSelfPowers(BigTimesPower(<<1>>, n, SumSeq(arr)), arr))
EntropyAtLeastLog2(arr, n) ==
    BigLeq(BigTimesSelfPowers(BigTimesPower(<<1>>, n, SumSeq(arr)), arr),
           BigTimesPower(<<1>>, SumSeq(arr), SumSeq(arr)))

\* The entropy computed for a series of n windows is in [0, log2(n)], is
\* log2(n) for a uniform series and 0 for one with a single nonzero entry.
EntropyInBounds(series, value) ==
    (\E i \in DOMAIN series : series[i] # 0) =>
        /\ value # NaN
        /\ EntropyAtLeast0(value.entropy_of)
        /\ EntropyAtMostLog2(value.entropy_of, Len(series))
        /\ (\A i \in DOMAIN series : series[i] = series[1])
              => EntropyAtLeastLog2(value.entropy_of, Len(series))
        /\ Cardinality({i \in DOMAIN series : series[i] # 0}) = 1
              => EntropyAtMost0(value.entropy_of)

-----------------------------------------------------------------------------
(* Claims about the cached classifier.                                     *)

\* C17: what a call of get_file_type through its cache returns is what the
\* function computes without the cache, whether the call was a hit, a miss
\* or a miss after an eviction; every cached result is the computed one; and
\* every path with the same lowercased basename is given the same type.
C17_ClassifierDeterministic ==
    pc = "returned" =>
        /\ filetype = get_file_type(table, fp)
        /\ \A i \in DOMAIN cache : cache[i].value = get_file_type(table, cache[i].key)
        /\ \A q \in CachePaths \cup Paths :
              Lower(PathName(q)) = Lower(PathName(fp)) => get_file_type(table, q) = filetype

\* A call served from the cache for a path whose type its exact name
\* decides, while the cache is full and holds a path of the same suffix
\* and another type.
C17_Witness ==
    /\ pc = "returned"
    /\ Len(cache) = MaxCacheSize
    /\ fp = <<"a", "/", "A", ".", "a">>
    /\ filetype # "unknown"
    /\ \E i \in DOMAIN cache :
          /\ cache[i].key = <<"a", "a", ".", "a">>
          /\ cache[i].value \notin {filetype, "unknown"}

-----------------------------------------------------------------------------
(* Claims about the activity series and their statistics.                  *)

\* Whether a commit of window i changes lines of the file subset s.
LinesChangedInWindow(i, s) ==
    \E k \in periods.commit_subset[i] : commits_df[k].lines_changed[s] # 0

\* C18: every entry of every activity series is 0 or 1, and it is 1 exactly
\* when some commit of the window has a nonzero lines_changed of that
\* subset.
C18_ActivityIndicator ==
    PeriodsReturned =>
        \A s \in FileSubsets : \A i \in DOMAIN periods.binary[s] :
            /\ periods.binary[s][i] \in {0, 1}
            /\ periods.binary[s][i] = 1 <=> LinesChangedInWindow(i, s)

\* C19: for at least one window, every *_changed_frac is the number of
\* windows with activity of that subset over the number of windows, and so
\* lies in [0, 1].
C19_ActiveFraction ==
    (pc = "returned" /\ ValidWindow) =>
        \A s \in FileSubsets :
            periods.binary[s] # <<>> =>
                /\ ~tsmetrics.changed_frac[s].nan
                /\ tsmetrics.changed_frac[s].den = Len(periods.binary[s])
                /\ tsmetrics.changed_frac[s].num =
                      Cardinality({i \in DOMAIN periods.binary[s] : periods.binary[s][i] # 0})
                /\ tsmetrics.changed_frac[s].num <= tsmetrics.changed_frac[s].den

\* C20: the lines_changed entropy and variation of a category are those of
\* every other commit table that, under the same window arguments, has the
\* same lines-changed series for that category.
C20_OwnSeriesOnly ==
    (pc = "returned" /\ ValidWindow) =>
        \A e \in BOOLEAN :
            tsmetrics = timeseries_metrics(periods, e) =>
                \A df2 \in WindowTables :
                    ~PeriodsRaises(df2, period_span, Some(periods.start_datetime),
                                   Some(periods.end_datetime), datetime_col) =>
                        LET r2 == get_periods_changed(df2, period_span,
                                                      Some(periods.start_datetime),
                                                      Some(periods.end_datetime), datetime_col)
                            m2 == timeseries_metrics(r2, e)
                        IN  \A c \in FileTypes :
                                r2.count[c] = periods.count[c] =>
                                    /\ m2.lines_changed_entropy[c] = tsmetrics.lines_changed_entropy[c]
                                    /\ m2.lines_changed_variation[c] = tsmetrics.lines_changed_variation[c]

-----------------------------------------------------------------------------
(* Claims about the per-window sums.                                       *)

RECURSIVE LinesOfRows(_, _)
\* The lines_changed of file subset s added up over the rows ks of commits_df.
LinesOfRows(ks, s) ==
    IF ks = {} THEN 0
    ELSE LET k == CHOOSE x \in ks : TRUE
         IN  commits_df[k].lines_changed[s] + LinesOfRows(ks \ {k}, s)

\* C21: entry i of every lines-changed series is the sum of that subset's
\* lines_changed over the commits whose timestamp is in window i, and 0 for
\* a window without commits.
C21_WindowLineSums ==
    PeriodsReturned =>
        \A s \in FileSubsets : \A i \in DOMAIN periods.count[s] :
            /\ periods.count[s][i] = LinesOfRows(RowsOfWindow(i), s)
            /\ RowsOfWindow(i) = {} => periods.count[s][i] = 0

\* A returned series with a window of two commits that change lines,
\* beside a window without commits and a commit outside the first window.
C21_Witness ==
    /\ PeriodsReturned
    /\ \E i, j \in DOMAIN periods.count["total"] :
          /\ Cardinality(RowsOfWindow(i)) = 2
          /\ \A k \in RowsOfWindow(i) : commits_df[k].lines_changed["total"] > 0
          /\ periods.count["total"][i] > 0
          /\ RowsOfWindow(j) = {}

-----------------------------------------------------------------------------
(* Claims about the definition of the absence factor.                      *)

\* The sum of the entries of v at the positions ks.
SumAt(v, ks) == SumSeq([i \in DOMAIN v |-> IF i \in ks THEN v[i] ELSE 0])

\* The sum of the m largest entries of v: the largest sum m positions have.
SumOfLargest(v, m) ==
    LET sums == {SumAt(v, ks) : ks \in {x \in SUBSET DOMAIN v : Cardinality(x) = m}}
    IN  CHOOSE x \in sums : \A y \in sums : x >= y

\* The smallest m such that the m largest entries of v add up to at least
\* half of the sum of v.
SmallestToHalf(v) ==
    LET enough == {m \in 0..Len(v) : 2 * SumOfLargest(v, m) >= SumSeq(v)}
    IN  CHOOSE m \in enough : \A n \in enough : m <= n

\* The per-contributor sums of file subset s of the call in the current
\* state, with the groups in the order o.
SumsPerContribIn(o, s) ==
    LinesChangedPerContrib(commits_df,
                           ScopedRows(commits_df, start_datetime, end_datetime, datetime_col),
                           contributor_name_col, o, s)

\* C22: every reported absence factor is the smallest m such that the m
\* largest per-contributor sums reach half of the grand total; for a
\* positive grand total it is between 1 and the number of contributors; and
\* it is the same in whatever order the contributors are enumerated.
C22_AbsenceFactorDefinition ==
    pc = "returned" =>
        \A s \in FileSubsets :
            LET v == SumsPerContrib(s)
            IN  /\ absence[s] = SmallestToHalf(v)
                /\ SumSeq(v) > 0 => (1 <= absence[s] /\ absence[s] <= Len(v))
                /\ \A o \in GroupOrders(ContributorsOf(commits_df,
                                            ScopedRows(commits_df, start_datetime,
                                                       end_datetime, datetime_col),
                                            contributor_name_col)) :
                      contributors_to_half(SumsPerContribIn(o, s)) = absence[s]

-----------------------------------------------------------------------------
(* Claims about the two lookups of the classifier.                         *)

\* The types of the rows whose filename is the lowercased basename of fp.
ExactNameTypes == {r.type : r \in {x \in table : x.filename = Lower(PathName(fp))}}

\* The types of the rows whose extension is the lowercased suffix of fp.
ExtensionTypes == {r.type : r \in {x \in table : x.extension = Lower(PathSuffix(fp))}}

\* The order in which several matched types are tried.
PriorityOrder == <<"prose", "data", "markup", "programming">>

\* C23: when the exact-name lookup does not decide and the extension rows
\* have more than one type, the result is the first of prose, data, markup,
\* programming among them, and unknown only if none of the four is.
C23_ClassifierPriority ==
    (pc = "returned" /\ Cardinality(ExactNameTypes) # 1 /\ Cardinality(ExtensionTypes) > 1) =>
        LET present == {i \in DOMAIN PriorityOrder : PriorityOrder[i] \in ExtensionTypes}
        IN  /\ present # {} =>
                  filetype = PriorityOrder[CHOOSE i \in present : \A j \in present : i <= j]
            /\ present = {} <=> filetype = "unknown"

\* The extension rows of a returned call are of markup and programming,
\* beaten by neither prose nor data, and the call returns markup.
C23_Witness ==
    /\ pc = "returned"
    /\ Cardinality(ExactNameTypes) # 1
    /\ ExtensionTypes = {"markup", "programming"}
    /\ filetype = "markup"

-----------------------------------------------------------------------------
(* Claims about the rows of the commit normaliser.                         *)

\* The rows of the per-file table for file f of commit c.
DeltaRowsOf(c, f) ==
    {k \in DOMAIN per_file_commit_deltas :
        /\ per_file_commit_deltas[k].commit_hash = c.hexsha
        /\ per_file_commit_deltas[k].filename = f.filename}

\* The rows of the per-commit table for commit c.
SummaryRowsOf(c) ==
    {k \in DOMAIN per_commit_summaries : per_commit_summaries[k].commit_hash = c.hexsha}

\* C25: parse_commits returns exactly one per-file row for every file of
\* every commit and no other row, exactly one summary row for every commit,
\* and a total_files_changed that is the number of files of the commit, the
\* files changed by no line included.
C25_LosslessNormalization ==
    pc = "returned" =>
        /\ Len(per_commit_summaries) = Len(repo)
        /\ Len(per_file_commit_deltas) = SumSeq([i \in DOMAIN repo |-> Len(repo[i].files)])
        /\ \A i \in DOMAIN repo :
              /\ Cardinality(SummaryRowsOf(repo[i])) = 1
              /\ \A j \in DOMAIN repo[i].files :
                    Cardinality(DeltaRowsOf(repo[i], repo[i].files[j])) = 1
              /\ \A k \in SummaryRowsOf(repo[i]) :
                    per_commit_summaries[k].files_changed["total"] = Len(repo[i].files)

\* A parsed commit of two files, one of them changed by no line: the file
\* has its row, with 0 additions and 0 deletions, and the commit counts 2
\* files.
C25_Witness ==
    /\ pc = "returned"
    /\ \E i \in DOMAIN repo :
          /\ Len(repo[i].files) = 2
          /\ per_commit_summaries[i].files_changed["total"] = 2
          /\ per_commit_summaries[i].lines_changed["total"] > 0
          /\ \E k \in DOMAIN per_file_commit_deltas :
                /\ per_file_commit_deltas[k].commit_hash = repo[i].hexsha
                /\ per_file_commit_deltas[k].additions = 0
                /\ per_file_commit_deltas[k].deletions = 0

\* C26: lines_changed is additions + deletions in every per-file row, and
\* in every summary row for the total and for each category.
C26_LinesChangedDefinition ==
    /\ \A k \in DOMAIN per_file_commit_deltas :
          per_file_commit_deltas[k].lines_changed =
              per_file_commit_deltas[k].additions + per_file_commit_deltas[k].deletions
    /\ \A k \in DOMAIN per_commit_summaries : \A s \in FileSubsets :
          per_commit_summaries[k].lines_changed[s] =
              per_commit_summaries[k].additions[s] + per_commit_summaries[k].deletions[s]

\* A parsed commit with a file of additions and deletions beside a file of
\* another category with additions only.
C26_Witness ==
    /\ pc = "returned"
    /\ \E k \in DOMAIN per_file_commit_deltas :
          per_file_commit_deltas[k].additions > 0 /\ per_file_commit_deltas[k].deletions > 0
    /\ \E k \in DOMAIN per_commit_summaries :
          /\ per_commit_summaries[k].additions["programming"] > 0
          /\ per_commit_summaries[k].deletions["programming"] > 0
          /\ per_commit_summaries[k].additions["markup"] > 0
          /\ per_commit_summaries[k].lines_changed["total"] = 4

-----------------------------------------------------------------------------
(* Claims about the stages of the orchestrator.                            *)

\* The bot-filter stage of the run is behind it.
BotsRemoved ==
    \/ pc \in {"filtered", "counted", "timeseries", "stability", "absence", "raised"}
    \/ pc = "returned" /\ all_metrics # NoMetrics

\* The two tables as they enter the bot-filter stage: parsed and restricted
\* to the requested range.
ScopedSummaries ==
    filter_changes_to_dt_range(parse_commits(table, repo).commit_summaries,
                               start_datetime, end_datetime, datetime_col).changes_df
ScopedDeltas ==
    filter_changes_to_dt_range(parse_commits(table, repo).per_file_commit_deltas,
                               start_datetime, end_datetime, datetime_col).changes_df

\* The commit hashes of the rows of a table.
HashesOf(df) == {df[k].commit_hash : k \in DOMAIN df}

\* C27: after the bot-filter stage every commit hash of the per-file table
\* is in the per-commit table, a per-file row is kept exactly when its
\* commit is, and bot_changes_count is the number of rows the stage took
\* from the per-commit table.
C27_BotFilterConsistent ==
    BotsRemoved =>
        /\ HashesOf(per_file_commit_deltas_df) \subseteq HashesOf(commits_df)
        /\ \A row \in Range(ScopedDeltas) :
              (row \in Range(per_file_commit_deltas_df))
                  <=> (row.commit_hash \in HashesOf(commits_df))
        /\ all_metrics.bot_changes_count = Len(ScopedSummaries) - Len(commits_df)

\* The stage has removed a bot's commit and its file rows, and kept the
\* commits of people and theirs.
C27_Witness ==
    /\ pc = "filtered"
    /\ all_metrics.bot_changes_count >= 1
    /\ commits_df # <<>>
    /\ per_file_commit_deltas_df # <<>>
    /\ \E row \in Range(ScopedDeltas) :
          row.commit_hash \notin HashesOf(per_file_commit_deltas_df)

\* No row of the table is a bot's.
BotFree(df) == \A k \in DOMAIN df : ~IsBotChange(df[k], BotNames, BotEmailIndicators)

\* The tables of the run without the rows of bots.
FilteredSummaries ==
    SelectSeq(ScopedSummaries, LAMBDA row : ~IsBotChange(row, BotNames, BotEmailIndicators))
FilteredDeltas ==
    SelectSeq(ScopedDeltas, LAMBDA row : ~IsBotChange(row, BotNames, BotEmailIndicators))

\* A step of the run that puts a statistic into the record.
ComputesStatistic ==
    /\ pc \in {"filtered", "counted", "timeseries", "stability", "absence"}
    /\ pc' \in {"counted", "timeseries", "stability", "absence", "returned"}

\* What a step that computes a statistic does, with summaries and deltas the
\* bot-filtered tables of the run: it starts from these tables, after the
\* removed commits were counted, and the statistic it puts into the record
\* is theirs.
StatisticOfFiltered(summaries, deltas) ==
    /\ "bot_changes_count" \in DOMAIN all_metrics
    /\ BotFree(commits_df) /\ BotFree(per_file_commit_deltas_df)
    /\ commits_df = summaries
    /\ per_file_commit_deltas_df = deltas
    /\ pc' = "counted" =>
          /\ all_metrics'.commit_counts = ComputedFrom(summaries)
          /\ all_metrics'.important_change_dates = ComputedFrom(summaries)
    /\ pc' = "timeseries" =>
          \E e \in BOOLEAN :
              all_metrics'.timeseries_metrics =
                  timeseries_metrics(
                      get_periods_changed(summaries, period_span, start_datetime,
                                          end_datetime, datetime_col), e)
    /\ pc' = "stability" =>
          \E o \in GroupOrders(ContributorsOf(
                       summaries,
                       ScopedRows(summaries, start_datetime, end_datetime, datetime_col),
                       contributor_name_col)) :
              all_metrics'.contributor_stability_metrics =
                  contributor_stability_metrics(
                      summaries, period_span, start_datetime, end_datetime,
                      contributor_name_col, datetime_col, o)
    /\ pc' = "absence" =>
          \E o \in GroupOrders(ContributorsOf(
                       summaries,
                       ScopedRows(summaries, start_datetime, end_datetime, datetime_col),
                       contributor_name_col)) :
              all_metrics'.contributor_absence_factor =
                  contributor_absence_factor(
                      summaries, start_datetime, end_datetime,
                      contributor_name_col, datetime_col, o)
    /\ pc' = "returned" =>
          /\ all_metrics'.contributor_distribution_metrics.of_rows = ComputedFrom(deltas).of_rows
          /\ \A f \in {"commit_counts", "important_change_dates", "timeseries_metrics",
                       "contributor_stability_metrics", "contributor_absence_factor"} :
                all_metrics'[f] = all_metrics[f]

\* C28: every step that computes a statistic is taken after the bot-filter
\* stage, on tables without a row of a bot, and the statistic it puts into
\* the record is the one of the bot-filtered tables of the run.
C28_StageOrdering ==
    [][ComputesStatistic => StatisticOfFiltered(FilteredSummaries, FilteredDeltas)]_vars

\* A run whose history holds a bot's commit inside the requested range has
\* returned its record, with every statistic in it.
C28_Witness ==
    /\ pc = "returned"
    /\ all_metrics # NoMetrics
    /\ all_metrics.bot_changes_count >= 1
    /\ {"commit_counts", "important_change_dates", "timeseries_metrics",
        "contributor_stability_metrics", "contributor_absence_factor",
        "contributor_distribution_metrics"} \subseteq DOMAIN all_metrics

\* C29: in every returned record meta_start_datetime and meta_end_datetime
\* are the start and the end the windowed metrics report, and the start and
\* the end the stability and absence-factor computations derived for the
\* table they were handed.
C29_ScopeAgreement ==
    (pc = "returned" /\ all_metrics # NoMetrics) =>
        /\ all_metrics.meta_start_datetime = Some(all_metrics.timeseries_metrics.start_datetime)
        /\ all_metrics.meta_end_datetime = Some(all_metrics.timeseries_metrics.end_datetime)
        /\ all_metrics.meta_start_datetime = StartOf(commits_df, start_datetime, datetime_col)
        /\ all_metrics.meta_end_datetime = EndOf(commits_df, end_datetime, datetime_col)

====
